---------------------------- MODULE Spec2Model ----------------------------
(***************************************************************************)
(* FactoryLink: the manufacturer data table (ManufacturerDataTable.tsx).   *)
(* The component's useState cells are the variables, its event handlers    *)
(* the actions, and its useMemo pipelines (filter, sort, paginate) and the *)
(* CSV serializer are operators.  A JavaScript string is a sequence of     *)
(* one-character strings, so that toLowerCase, includes, join, String()    *)
(* and the comparison operators are computed and not assumed.              *)
(***************************************************************************)
EXTENDS Integers, Sequences, FiniteSets, TLC

(***************************************************************************)
(* Bounds of the model.                                                    *)
(***************************************************************************)
\* number of records of the store's collection in the table specification
NumRecords == 11
\* largest collection of the pager specification
MaxItems == 40
\* the handlers are explored while at most this many filters are active
MaxActiveFilters == 1
\* the enabled "next page" control is followed up to this page
MaxPage == 3
\* the year new Date().getFullYear() returns
CurrentYear == 2025
\* longest text of a record's name and city in the CSV specification
MaxCellLen == 3
\* the auth store's calls are explored while authenticationLogs is shorter
MaxAuthLogs == 6
\* register and logout are explored while authenticationLogs is shorter than this
MaxSessionLogs == 2
\* the clock of the auth store runs from 0 to MaxTime, TickStep ticks at a time
MaxTime == 30
TickStep == 15
\* clock ticks per minute
TicksPerMinute == 2

(***************************************************************************)
(* JavaScript strings.                                                     *)
(***************************************************************************)
\* the characters in use, in increasing UTF-16 code unit order
AsciiOrder ==
  << " ", "\"", "%", "+", ",", "-", ".",
     "0", "1", "2", "3", "4", "5", "6", "7", "8", "9", ";", "@",
     "A", "B", "C", "D", "E", "F", "G", "H", "I", "J", "K", "L", "M",
     "N", "O", "P", "Q", "R", "S", "T", "U", "V", "W", "X", "Y", "Z", "_",
     "a", "b", "c", "d", "e", "f", "g", "h", "i", "j", "k", "l", "m",
     "n", "o", "p", "q", "r", "s", "t", "u", "v", "w", "x", "y", "z" >>

CodeTable ==
  [c \in {AsciiOrder[i] : i \in 1..Len(AsciiOrder)} |->
     CHOOSE i \in 1..Len(AsciiOrder) : AsciiOrder[i] = c]

\* String.prototype.charCodeAt, as the rank of the character
CharCode(c) == CodeTable[c]

UpperA == CharCode("A")
UpperZ == CharCode("Z")
LowerA == CharCode("a")

\* String.prototype.toLowerCase on one character
ToLowerChar(c) ==
  IF CharCode(c) >= UpperA /\ CharCode(c) <= UpperZ
    THEN AsciiOrder[CharCode(c) - UpperA + LowerA]
    ELSE c

ToLowerCase(s) == [i \in 1..Len(s) |-> ToLowerChar(s[i])]

\* String.prototype.includes: term occurs in text as a contiguous substring
Includes(text, term) ==
  \E i \in 0..(Len(text) - Len(term)) :
      \A j \in 1..Len(term) : text[i + j] = term[j]

\* the < operator on two strings: lexicographic on code units
RECURSIVE StrLess(_, _)
StrLess(a, b) ==
  IF b = << >> THEN FALSE
  ELSE IF a = << >> THEN TRUE
  ELSE IF Head(a) = Head(b) THEN StrLess(Tail(a), Tail(b))
  ELSE CharCode(Head(a)) < CharCode(Head(b))

\* Array.prototype.join of an array of strings
RECURSIVE Join(_, _)
Join(parts, sep) ==
  IF parts = << >> THEN << >>
  ELSE IF Len(parts) = 1 THEN parts[1]
  ELSE parts[1] \o sep \o Join(Tail(parts), sep)

Digits == << "0", "1", "2", "3", "4", "5", "6", "7", "8", "9" >>

\* String(n) for a non-negative integer
RECURSIVE NatToStr(_)
NatToStr(n) ==
  IF n < 10 THEN << Digits[n + 1] >>
  ELSE NatToStr(n \div 10) \o << Digits[(n % 10) + 1] >>

\* String(x) for a number with one decimal, held in tenths (4.5 is 45)
TenthsToStr(t) ==
  IF t % 10 = 0 THEN NatToStr(t \div 10)
  ELSE NatToStr(t \div 10) \o << "." >> \o NatToStr(t % 10)

(***************************************************************************)
(* Manufacturer records.  The table reads the store's collection; a record *)
(* is identified by its id, and record i of the catalogue takes each       *)
(* attribute from a short table of values, so that the boundary values of  *)
(* every filter occur.  rating is held in tenths.                          *)
(***************************************************************************)
Pick(table, n) == table[(n % Len(table)) + 1]

NameTable == << <<"A", "b">>, <<"a", "b">>, <<"B", ",", "c">>, <<"C", "\"", "d">> >>
CityTable == << <<"L", "a">>, <<"R", "o">> >>
StateTable == << <<"C", "A">>, <<"T", "X">>, <<"N", "Y">> >>
KeywordTable == << <<"c", "n", "c">>, <<"d", "i", "e">> >>
ApplicationTable == << <<"a", "u", "t", "o">>, <<"m", "e", "d">> >>
Welding == <<"W", "e">>
Milling == <<"M", "i">>
Casting == <<"C", "a">>
Steel == <<"S", "t">>
Aluminum == <<"A", "l">>
Iso == <<"I", "S", "O">>
As9 == <<"A", "S">>
CapabilityTable == << <<Welding>>, <<Milling>>, <<Welding, Milling>>, << >>, <<Casting>> >>
MaterialTable == << <<Steel>>, <<Aluminum, Steel>>, << >>, <<Aluminum>> >>
CertificationTable == << <<Iso>>, << >>, <<Iso, As9>> >>
EmployeeTable == << 25, 26, 50, 51, 100, 500, 501 >>
RevenueTable == << 500000, 1000000, 10000000, 50000000, 100000000 >>
CapacityTable == << 49, 50, 79, 80 >>
RatingTable == << 45, 44, 40, 35, 30 >>
SustainabilityTable == << 0, 50, 90 >>
YearTable == << 2020, 2019, 2010, 1995, 1994 >>
MoqTable == << 100, 1000 >>
LeadTimeTable == << 7, 21, 60 >>

CatalogueSize == IF NumRecords > MaxItems THEN NumRecords ELSE MaxItems

\* Manufacturer.name and Manufacturer.city are of type string: the records after
\* the first CatalogueSize carry every text of at most MaxCellLen characters over
\* CellAlphabet, among them the characters a CSV gives a meaning to
CellAlphabet == << "a", ",", "\"" >>

RECURSIVE Power(_, _)
Power(b, e) == IF e = 0 THEN 1 ELSE b * Power(b, e - 1)

\* the number of texts of at most MaxCellLen characters over CellAlphabet
NumCellTexts == (Power(Len(CellAlphabet), MaxCellLen + 1) - 1) \div (Len(CellAlphabet) - 1)

RECURSIVE CellText(_)
\* the n-th text over CellAlphabet, shortest first; CellText(0) is the empty text
CellText(n) ==
  IF n = 0 THEN << >>
  ELSE Append(CellText((n - 1) \div Len(CellAlphabet)),
              CellAlphabet[((n - 1) % Len(CellAlphabet)) + 1])

\* the attributes of a record the filter reads
AttributeNames ==
  << "name", "city", "state", "industryKeywords", "primaryApplications",
     "capabilities", "materials", "certifications", "numberOfEmployees",
     "annualRevenue", "currentCapacity", "rating", "diversityFlag",
     "sustainabilityScore", "yearEstablished" >>

\* a record of type Manufacturer: every attribute is there
TypedRecord(i) ==
  [ id |-> i,
    name |-> IF i > CatalogueSize THEN CellText(i - CatalogueSize - 1)
             ELSE Pick(NameTable, i),
    city |-> IF i > CatalogueSize THEN CellText(NumCellTexts - (i - CatalogueSize))
             ELSE Pick(CityTable, i),
    state |-> Pick(StateTable, i),
    industryKeywords |-> Pick(KeywordTable, i \div 2),
    primaryApplications |-> Pick(ApplicationTable, i \div 3),
    capabilities |-> Pick(CapabilityTable, i),
    materials |-> Pick(MaterialTable, i + 1),
    certifications |-> Pick(CertificationTable, i + 2),
    numberOfEmployees |-> Pick(EmployeeTable, i),
    annualRevenue |-> Pick(RevenueTable, i + 3),
    currentCapacity |-> Pick(CapacityTable, i + 1),
    rating |-> Pick(RatingTable, i + 2),
    diversityFlag |-> (i % 2 = 0),
    sustainabilityScore |-> Pick(SustainabilityTable, i + 1),
    yearEstablished |-> Pick(YearTable, i + 4),
    moq |-> Pick(MoqTable, i),
    leadTimeDays |-> Pick(LeadTimeTable, i),
    missing |-> {} ]

\* the records of the model.  The last Len(AttributeNames) of them are what a
\* loosely typed source delivers: record k of the catalogue with the k-th
\* attribute undefined, named in missing; the value kept for it is never read
Catalogue ==
  [ i \in 1..(CatalogueSize + NumCellTexts + Len(AttributeNames)) |->
      IF i > CatalogueSize + NumCellTexts
        THEN [ TypedRecord(i - CatalogueSize - NumCellTexts) EXCEPT
                 !.id = i,
                 !.missing = { AttributeNames[i - CatalogueSize - NumCellTexts] } ]
        ELSE TypedRecord(i) ]

\* the record with identifier i
Manufacturer(i) == Catalogue[i]

(***************************************************************************)
(* Filter state (FilterState) and the filter predicates.                   *)
(***************************************************************************)
\* useState<FilterState> initial value, also what clearAllFilters sets
DefaultFilters ==
  [ search |-> << >>,
    capabilities |-> << >>,
    materials |-> << >>,
    certifications |-> << >>,
    states |-> << >>,
    employeeRange |-> "all",
    revenueRange |-> "all",
    capacityRange |-> "all",
    ratingRange |-> "all",
    diversityFlag |-> "null",
    sustainabilityMin |-> 0,
    yearEstablishedRange |-> "all" ]

\* the attribute is undefined in the record
Lacks(m, attribute) == attribute \in m.missing

\* what Array.prototype.join makes of the attribute: '' for undefined
Joined(m, attribute) == IF Lacks(m, attribute) THEN << >> ELSE m[attribute]

\* Array.prototype.includes
ArrayIncludes(arr, x) == \E k \in 1..Len(arr) : arr[k] = x

\* selection.some(v => attribute.includes(v))
SomeIncluded(selection, attribute) ==
  \E k \in 1..Len(selection) : ArrayIncludes(attribute, selection[k])

\* the text the search term is looked up in
SearchableText(m) ==
  ToLowerCase(Join(<< Joined(m, "name"), Joined(m, "city"), Joined(m, "state"),
                      Joined(m, "industryKeywords"), Joined(m, "primaryApplications") >>
                     \o m.capabilities \o m.materials,
                   << " " >>))

SearchPasses(m, f) ==
  f.search = << >> \/ Includes(SearchableText(m), ToLowerCase(f.search))

\* the capabilities filter without its length > 0 guard
CapabilitiesPass_NoEmptyGuard(m, f) ==
  SomeIncluded(f.capabilities, m.capabilities)

CapabilitiesPass(m, f) ==
  Len(f.capabilities) > 0 => SomeIncluded(f.capabilities, m.capabilities)

MaterialsPass(m, f) ==
  Len(f.materials) > 0 => SomeIncluded(f.materials, m.materials)

CertificationsPass(m, f) ==
  Len(f.certifications) > 0 => SomeIncluded(f.certifications, m.certifications)

\* the states filter with its test inverted
StatesPass_Inverted(m, f) ==
  Len(f.states) > 0 => ~ArrayIncludes(f.states, m.state)

\* filters.states.includes(undefined) is false
StatesPass(m, f) ==
  Len(f.states) > 0 => (~Lacks(m, "state") /\ ArrayIncludes(f.states, m.state))

EmployeeRangePasses(m, f) ==
  LET empCount == m.numberOfEmployees IN
  IF Lacks(m, "numberOfEmployees") THEN TRUE ELSE
  CASE f.employeeRange = "1-25" -> ~(empCount < 1 \/ empCount > 25)
    [] f.employeeRange = "26-50" -> ~(empCount < 26 \/ empCount > 50)
    [] f.employeeRange = "51-100" -> ~(empCount < 51 \/ empCount > 100)
    [] f.employeeRange = "101-250" -> ~(empCount < 101 \/ empCount > 250)
    [] f.employeeRange = "251-500" -> ~(empCount < 251 \/ empCount > 500)
    [] f.employeeRange = "500+" -> ~(empCount < 500)
    [] OTHER -> TRUE

RevenueRangePasses(m, f) ==
  LET revenue == m.annualRevenue IN
  IF Lacks(m, "annualRevenue") THEN TRUE ELSE
  CASE f.revenueRange = "0-1M" -> ~(revenue >= 1000000)
    [] f.revenueRange = "1M-10M" -> ~(revenue < 1000000 \/ revenue >= 10000000)
    [] f.revenueRange = "10M-50M" -> ~(revenue < 10000000 \/ revenue >= 50000000)
    [] f.revenueRange = "50M-100M" -> ~(revenue < 50000000 \/ revenue >= 100000000)
    [] f.revenueRange = "100M+" -> ~(revenue < 100000000)
    [] OTHER -> TRUE

CapacityRangePasses(m, f) ==
  LET capacity == m.currentCapacity IN
  IF Lacks(m, "currentCapacity") THEN TRUE ELSE
  CASE f.capacityRange = "low" -> ~(capacity >= 50)
    [] f.capacityRange = "medium" -> ~(capacity < 50 \/ capacity >= 80)
    [] f.capacityRange = "high" -> ~(capacity < 80)
    [] OTHER -> TRUE

RatingRangePasses(m, f) ==
  LET rating == m.rating IN
  IF Lacks(m, "rating") THEN TRUE ELSE
  CASE f.ratingRange = "4.5+" -> ~(rating < 45)
    [] f.ratingRange = "4.0+" -> ~(rating < 40)
    [] f.ratingRange = "3.5+" -> ~(rating < 35)
    [] OTHER -> TRUE

BoolName(b) == IF b THEN "true" ELSE "false"

\* undefined !== true and undefined !== false
DiversityPasses(m, f) ==
  f.diversityFlag # "null" =>
    (~Lacks(m, "diversityFlag") /\ BoolName(m.diversityFlag) = f.diversityFlag)

SustainabilityPasses(m, f) ==
  f.sustainabilityMin > 0 =>
    (Lacks(m, "sustainabilityScore") \/ ~(m.sustainabilityScore < f.sustainabilityMin))

YearEstablishedPasses(m, f) ==
  LET age == CurrentYear - m.yearEstablished IN
  IF Lacks(m, "yearEstablished") THEN TRUE ELSE
  CASE f.yearEstablishedRange = "0-5" -> ~(age > 5)
    [] f.yearEstablishedRange = "6-15" -> ~(age <= 5 \/ age > 15)
    [] f.yearEstablishedRange = "16-30" -> ~(age <= 15 \/ age > 30)
    [] f.yearEstablishedRange = "30+" -> ~(age <= 30)
    [] OTHER -> TRUE

\* the callback of manufacturers.filter: every predicate must let the record by
PassesFilters(m, f) ==
  /\ SearchPasses(m, f)
  /\ CapabilitiesPass(m, f)
  /\ MaterialsPass(m, f)
  /\ CertificationsPass(m, f)
  /\ StatesPass(m, f)
  /\ EmployeeRangePasses(m, f)
  /\ RevenueRangePasses(m, f)
  /\ CapacityRangePasses(m, f)
  /\ RatingRangePasses(m, f)
  /\ DiversityPasses(m, f)
  /\ SustainabilityPasses(m, f)
  /\ YearEstablishedPasses(m, f)

\* the callback throws a TypeError: it spreads an undefined capabilities or
\* materials into the searchable text, or calls includes on an undefined array,
\* unless an earlier filter has already returned false
FilterThrows(m, f) ==
  \/ f.search # << >> /\ (Lacks(m, "capabilities") \/ Lacks(m, "materials"))
  \/ /\ ~(f.search # << >> /\ (Lacks(m, "capabilities") \/ Lacks(m, "materials")))
     /\ SearchPasses(m, f)
     /\ \/ Len(f.capabilities) > 0 /\ Lacks(m, "capabilities")
        \/ /\ ~(Len(f.capabilities) > 0 /\ Lacks(m, "capabilities"))
           /\ CapabilitiesPass(m, f)
           /\ \/ Len(f.materials) > 0 /\ Lacks(m, "materials")
              \/ /\ ~(Len(f.materials) > 0 /\ Lacks(m, "materials"))
                 /\ MaterialsPass(m, f)
                 /\ Len(f.certifications) > 0
                 /\ Lacks(m, "certifications")

\* manufacturers.filter(...) throws on some record of the collection
RenderThrows(ids, f) == \E k \in 1..Len(ids) : FilterThrows(Manufacturer(ids[k]), f)

\* a filter that also drops the first record that passes
RECURSIVE FilterIds_DropsFirstPassing(_, _)
FilterIds_DropsFirstPassing(ids, f) ==
  IF ids = << >> THEN << >>
  ELSE IF PassesFilters(Manufacturer(Head(ids)), f)
         THEN SelectSeq(Tail(ids), LAMBDA id : PassesFilters(Manufacturer(id), f))
         ELSE FilterIds_DropsFirstPassing(Tail(ids), f)

\* manufacturers.filter(...) on a collection of ids: order kept
RECURSIVE FilterIds(_, _)
FilterIds(ids, f) ==
  IF ids = << >> THEN << >>
  ELSE IF PassesFilters(Manufacturer(Head(ids)), f)
         THEN << Head(ids) >> \o FilterIds(Tail(ids), f)
         ELSE FilterIds(Tail(ids), f)

\* activeFilterCount
ActiveFilterCount(f) ==
  (IF f.search # << >> THEN 1 ELSE 0)
  + Len(f.capabilities) + Len(f.materials) + Len(f.certifications) + Len(f.states)
  + (IF f.employeeRange # "all" THEN 1 ELSE 0)
  + (IF f.revenueRange # "all" THEN 1 ELSE 0)
  + (IF f.capacityRange # "all" THEN 1 ELSE 0)
  + (IF f.ratingRange # "all" THEN 1 ELSE 0)
  + (IF f.diversityFlag # "null" THEN 1 ELSE 0)
  + (IF f.sustainabilityMin > 0 THEN 1 ELSE 0)
  + (IF f.yearEstablishedRange # "all" THEN 1 ELSE 0)

(***************************************************************************)
(* Sorting (SortConfig) and pagination (PaginationConfig).                 *)
(***************************************************************************)
StringKeys == {"name", "state"}

\* aValue < bValue for the values of the sort key
KeyLess(key, a, b) ==
  IF key \in StringKeys THEN StrLess(a[key], b[key]) ELSE a[key] < b[key]

\* the comparator without its test of the direction
Compare_IgnoresDirection(sortConfig, a, b) ==
  IF KeyLess(sortConfig.key, a, b) THEN -1
  ELSE IF KeyLess(sortConfig.key, b, a) THEN 1
  ELSE 0

\* the comparator handed to Array.prototype.sort
Compare(sortConfig, a, b) ==
  IF KeyLess(sortConfig.key, a, b) THEN (IF sortConfig.direction = "asc" THEN -1 ELSE 1)
  ELSE IF KeyLess(sortConfig.key, b, a) THEN (IF sortConfig.direction = "asc" THEN 1 ELSE -1)
  ELSE 0

\* Array.prototype.sort is stable: x goes behind every element it does not precede
RECURSIVE InsertSorted(_, _, _)
InsertSorted(sorted, x, sortConfig) ==
  IF sorted = << >> THEN << x >>
  ELSE IF Compare(sortConfig, Manufacturer(x), Manufacturer(Head(sorted))) < 0
         THEN << x >> \o sorted
         ELSE << Head(sorted) >> \o InsertSorted(Tail(sorted), x, sortConfig)

RECURSIVE SortIds(_, _)
SortIds(ids, sortConfig) ==
  IF ids = << >> THEN << >>
  ELSE InsertSorted(SortIds(SubSeq(ids, 1, Len(ids) - 1), sortConfig),
                    ids[Len(ids)], sortConfig)

\* the filteredAndSortedData memo
FilterAndSort(ids, f, sortConfig) ==
  IF sortConfig.key # "null" THEN SortIds(FilterIds(ids, f), sortConfig)
  ELSE FilterIds(ids, f)

\* Math.ceil(totalItems / itemsPerPage)
TotalPages(totalItems, itemsPerPage) ==
  (totalItems + itemsPerPage - 1) \div itemsPerPage

Min(a, b) == IF a < b THEN a ELSE b

\* Array.prototype.slice(start, end) for 0 <= start
Slice(arr, start, end) ==
  SubSeq(arr, start + 1, Min(end, Len(arr)))

\* the slice with startIndex one page too far
PageSlice_OffByOnePage(data, currentPage, itemsPerPage) ==
  LET startIndex == currentPage * itemsPerPage
      endIndex == startIndex + itemsPerPage
  IN Slice(data, startIndex, endIndex)

\* the paginatedData memo: the slice of the current page
PageSlice(data, currentPage, itemsPerPage) ==
  LET startIndex == (currentPage - 1) * itemsPerPage
      endIndex == startIndex + itemsPerPage
  IN Slice(data, startIndex, endIndex)

(***************************************************************************)
(* CSV export (generateCSV).                                               *)
(***************************************************************************)
Headers ==
  << <<"N", "a", "m", "e">>,
     <<"C", "i", "t", "y">>,
     <<"S", "t", "a", "t", "e">>,
     <<"I", "n", "d", "u", "s", "t", "r", "y">>,
     <<"E", "m", "p", "l", "o", "y", "e", "e", "s">>,
     <<"R", "e", "v", "e", "n", "u", "e">>,
     <<"R", "a", "t", "i", "n", "g">>,
     <<"M", "O", "Q">>,
     <<"L", "e", "a", "d", " ", "T", "i", "m", "e">>,
     <<"C", "a", "p", "a", "c", "i", "t", "y">>,
     <<"S", "u", "s", "t", "a", "i", "n", "a", "b", "i", "l", "i", "t", "y">>,
     <<"F", "o", "u", "n", "d", "e", "d">>,
     <<"C", "a", "p", "a", "b", "i", "l", "i", "t", "i", "e", "s">>,
     <<"M", "a", "t", "e", "r", "i", "a", "l", "s">>,
     <<"C", "e", "r", "t", "i", "f", "i", "c", "a", "t", "i", "o", "n", "s">> >>

ListSeparator == <<";", " ">>

\* one row of generateCSV's rows, every cell already String(cell)
CsvRow(m) ==
  << m.name, m.city, m.state, m.industryKeywords,
     NatToStr(m.numberOfEmployees), NatToStr(m.annualRevenue),
     TenthsToStr(m.rating), NatToStr(m.moq), NatToStr(m.leadTimeDays),
     NatToStr(m.currentCapacity), NatToStr(m.sustainabilityScore),
     NatToStr(m.yearEstablished),
     Join(m.capabilities, ListSeparator),
     Join(m.materials, ListSeparator),
     Join(m.certifications, ListSeparator) >>

\* [headers, ...rows]
CsvRows(data) == << Headers >> \o [k \in 1..Len(data) |-> CsvRow(data[k])]

\* replace() without the doubling
DoubleQuotes_Unchanged(cell) == cell

\* cell.replace(/"/g, '""')
RECURSIVE DoubleQuotes(_)
DoubleQuotes(cell) ==
  IF cell = << >> THEN << >>
  ELSE IF Head(cell) = "\"" THEN << "\"", "\"" >> \o DoubleQuotes(Tail(cell))
  ELSE << Head(cell) >> \o DoubleQuotes(Tail(cell))

\* `"${...}"`
QuoteCell(cell) == << "\"" >> \o DoubleQuotes(cell) \o << "\"" >>

CsvLine(row) == Join([k \in 1..Len(row) |-> QuoteCell(row[k])], << "," >>)

GenerateCSV(data) ==
  LET rows == CsvRows(data)
  IN Join([k \in 1..Len(rows) |-> CsvLine(rows[k])], << "\n" >>)

\* manufacturers.filter(m => selectedRows.has(m.id))
RECURSIVE SelectedData(_, _)
SelectedData(ids, selected) ==
  IF ids = << >> THEN << >>
  ELSE IF Manufacturer(Head(ids)).id \in selected
         THEN << Manufacturer(Head(ids)) >> \o SelectedData(Tail(ids), selected)
         ELSE SelectedData(Tail(ids), selected)

(***************************************************************************)
(* The auth store (authStore.ts): a zustand store whose fields are the     *)
(* fields of the record authStore.  Date.now() is the clock now, counted   *)
(* in ticks.  login and register contain no await before their last        *)
(* statement that reads or writes the store, and the callers await them,   *)
(* so each call is one step.                                               *)
(***************************************************************************)
\* 15 * 60 * 1000 ms, in minutes
LockoutMinutes == 15
\* recentFailedAttempts.length >= 5
MaxFailedAttempts == 5
\* password.length < 6
MinPasswordLength == 6
\* 24 * 60 * 60 * 1000 ms, in hours
VerificationHours == 24

LockoutWindow == LockoutMinutes * TicksPerMinute

JohnDoeEmail == << "j", "o", "h", "n", ".", "d", "o", "e", "@", "e", "x", "a", "m", "p", "l", "e", ".", "c", "o", "m" >>
JaneSmithEmail == << "j", "a", "n", "e", ".", "s", "m", "i", "t", "h", "@", "c", "o", "m", "p", "a", "n", "y", ".", "c", "o", "m" >>
AdminEmail == << "a", "d", "m", "i", "n", "@", "f", "a", "c", "t", "o", "r", "y", "l", "i", "n", "k", ".", "c", "o", "m" >>
TestUserEmail == << "t", "e", "s", "t", ".", "u", "s", "e", "r", "@", "d", "e", "m", "o", ".", "c", "o", "m" >>
ProcurementEmail == << "p", "r", "o", "c", "u", "r", "e", "m", "e", "n", "t", "@", "m", "a", "n", "u", "f", "a", "c", "t", "u", "r", "i", "n", "g", ".", "c", "o", "m" >>

mockRegisteredEmails ==
  << JohnDoeEmail, JaneSmithEmail, AdminEmail, TestUserEmail, ProcurementEmail >>

DeletedUserEmail == << "d", "e", "l", "e", "t", "e", "d", ".", "u", "s", "e", "r", "@", "e", "x", "a", "m", "p", "l", "e", ".", "c", "o", "m" >>
TestDeletedEmail == << "t", "e", "s", "t", ".", "d", "e", "l", "e", "t", "e", "d", "@", "c", "o", "m", "p", "a", "n", "y", ".", "c", "o", "m" >>

\* the fields of DeletedAccount the store reads or writes; of an audit entry the
\* action and who performed it
mockDeletedAccounts ==
  << [ id |-> "del_001",
       originalUserId |-> "user_deleted_001",
       email |-> DeletedUserEmail,
       firstName |-> << "J", "o", "h", "n" >>,
       lastName |-> << "D", "e", "l", "e", "t", "e", "d" >>,
       phone |-> "+1-555-0123",
       deletionReason |-> "User requested account deletion",
       auditTrail |-> << [ action |-> "account_deleted",
                           performedBy |-> "user_deleted_001" ] >> ],
     [ id |-> "del_002",
       originalUserId |-> "user_deleted_002",
       email |-> TestDeletedEmail,
       firstName |-> << "J", "a", "n", "e" >>,
       lastName |-> << "S", "m", "i", "t", "h" >>,
       phone |-> "+1-555-0456",
       deletionReason |-> "Account violation - spam activity",
       auditTrail |-> << [ action |-> "account_deleted",
                           performedBy |-> "admin_001" ] >> ] >>

\* user: null
NullUser == [ null |-> TRUE ]

\* create<AuthState>(...): the store after construction
InitialAuthState ==
  [ user |-> NullUser,
    isAuthenticated |-> FALSE,
    isLoading |-> FALSE,
    deletedAccounts |-> mockDeletedAccounts,
    registrationAttempts |-> << >>,
    authenticationLogs |-> << >>,
    emailVerifications |-> << >>,
    registeredEmails |-> mockRegisteredEmails ]

IsLetter(c) ==
  \/ CharCode(c) >= UpperA /\ CharCode(c) <= UpperZ
  \/ CharCode(c) >= LowerA /\ CharCode(c) <= LowerA + (UpperZ - UpperA)

IsDigit(c) == ArrayIncludes(Digits, c)

\* [A-Z0-9._%+-] and [A-Z0-9.-] under the i flag
EmailLocalChar(c) == IsLetter(c) \/ IsDigit(c) \/ c \in {".", "_", "%", "+", "-"}
EmailDomainChar(c) == IsLetter(c) \/ IsDigit(c) \/ c \in {".", "-"}

\* /^[A-Z0-9._%+-]+@[A-Z0-9.-]+\.[A-Z]{2,}$/i .test(email)
validateEmailFormat(email) ==
  \E at \in 2..Len(email) : \E dot \in (at + 2)..(Len(email) - 2) :
    /\ email[at] = "@"
    /\ \A k \in 1..(at - 1) : EmailLocalChar(email[k])
    /\ \A k \in (at + 1)..(dot - 1) : EmailDomainChar(email[k])
    /\ email[dot] = "."
    /\ \A k \in (dot + 1)..Len(email) : IsLetter(email[k])

\* registeredEmails.includes(email.toLowerCase())
checkEmailExists(store, email) == ArrayIncludes(store.registeredEmails, ToLowerCase(email))

\* Math.ceil(a / b) for a >= 0
CeilDiv(a, b) == (a + b - 1) \div b

\* the log entries checkAccountLockout counts
recentFailedAttempts(store, email, t) ==
  SelectSeq(store.authenticationLogs,
            LAMBDA log : /\ log.email = email
                         /\ log.action = "login_failed"
                         /\ log.timestamp > t - LockoutWindow)

\* a lockout that needs one more failure than MaxFailedAttempts
checkAccountLockout_SixFailures(store, email, t) ==
  LET recent == recentFailedAttempts(store, email, t)
  IN IF Len(recent) >= MaxFailedAttempts + 1
       THEN [ isLocked |-> TRUE,
              remainingTime |->
                CeilDiv(recent[Len(recent)].timestamp + LockoutWindow - t, TicksPerMinute) ]
       ELSE [ isLocked |-> FALSE, remainingTime |-> 0 ]

\* checkAccountLockout(email) at time t; remainingTime 0 stands for undefined
checkAccountLockout(store, email, t) ==
  LET recent == recentFailedAttempts(store, email, t)
  IN IF Len(recent) >= MaxFailedAttempts
       THEN LET lastAttempt == recent[Len(recent)]
                lockoutEnd == lastAttempt.timestamp + LockoutWindow
            IN IF t < lockoutEnd
                 THEN [ isLocked |-> TRUE,
                        remainingTime |-> CeilDiv(lockoutEnd - t, TicksPerMinute) ]
                 ELSE [ isLocked |-> FALSE, remainingTime |-> 0 ]
       ELSE [ isLocked |-> FALSE, remainingTime |-> 0 ]

\* the catch block without set({ isLoading: false })
Rejected_KeepsLoading(store, message, minutes) ==
  [ store |-> store, error |-> message, remainingTime |-> minutes ]

\* a string argument that is neither undefined nor ''
Truthy(text) == text # "undefined" /\ text # ""

\* checkDeletedAccount comparing the emails as typed
checkDeletedAccount_CaseSensitive(store, email, phone) ==
  LET hits == { k \in 1..Len(store.deletedAccounts) :
                  \/ store.deletedAccounts[k].email = email
                  \/ (Truthy(phone) /\ store.deletedAccounts[k].phone = phone) }
  IN IF hits = {} THEN 0 ELSE CHOOSE k \in hits : \A j \in hits : k <= j

\* checkDeletedAccount(email, phone): the index in deletedAccounts of the record
\* find() returns, 0 for null
checkDeletedAccount(store, email, phone) ==
  LET hits == { k \in 1..Len(store.deletedAccounts) :
                  \/ ToLowerCase(store.deletedAccounts[k].email) = ToLowerCase(email)
                  \/ (Truthy(phone) /\ store.deletedAccounts[k].phone = phone) }
  IN IF hits = {} THEN 0 ELSE CHOOSE k \in hits : \A j \in hits : k <= j

\* logAuthenticationAttempt that keeps only the successes
logAuthenticationAttempt_SuccessOnly(store, log, t) ==
  IF log.success
    THEN [ store EXCEPT !.authenticationLogs =
             Append(@, [ email |-> log.email, action |-> log.action,
                         reason |-> log.reason, success |-> log.success,
                         metadata |-> log.metadata, timestamp |-> t ]) ]
    ELSE store

\* logAuthenticationAttempt(log) at time t
logAuthenticationAttempt(store, log, t) ==
  [ store EXCEPT !.authenticationLogs =
      Append(@, [ email |-> log.email, action |-> log.action, reason |-> log.reason,
                  success |-> log.success, metadata |-> log.metadata,
                  timestamp |-> t ]) ]

\* logRegistrationAttempt(attempt) at time t
logRegistrationAttempt(store, attempt, t) ==
  [ store EXCEPT !.registrationAttempts =
      Append(@, [ email |-> attempt.email, firstName |-> attempt.firstName,
                  lastName |-> attempt.lastName, phone |-> attempt.phone,
                  blocked |-> attempt.blocked, blockReason |-> attempt.blockReason,
                  deletedAccountId |-> attempt.deletedAccountId,
                  attemptedAt |-> t ]) ]

\* addDeletionAuditEntry(deletedAccountId, entry)
addDeletionAuditEntry(store, deletedAccountId, entry) ==
  [ store EXCEPT !.deletedAccounts =
      [ k \in 1..Len(@) |->
          IF @[k].id = deletedAccountId
            THEN [ @[k] EXCEPT !.auditTrail = Append(@, entry) ]
            ELSE @[k] ] ]

ReregistrationAttempted ==
  [ action |-> "reregistration_attempted", performedBy |-> "anonymous" ]

\* sendEmailVerification(email) at time t; token is what
\* generateVerificationToken() returned
sendEmailVerification(store, email, token, t) ==
  [ store EXCEPT !.emailVerifications =
      Append(@, [ id |-> t, email |-> email, token |-> token,
                  expiresAt |-> t + VerificationHours * 60 * TicksPerMinute,
                  createdAt |-> t, verified |-> FALSE, attempts |-> 0 ]) ]

\* the user login() signs in
mockUser(email) ==
  [ id |-> << "1" >>, email |-> email,
    firstName |-> << "J", "o", "h", "n" >>, lastName |-> << "D", "o", "e" >>,
    role |-> "founder", company |-> "TechStart Inc.", phone |-> "+1 (555) 123-4567",
    subscription |-> "pro", status |-> "active", emailVerified |-> TRUE ]

\* the user register() creates at time t
newUser(userData, t) ==
  [ id |-> NatToStr(t), email |-> userData.email,
    firstName |-> userData.firstName, lastName |-> userData.lastName,
    role |-> userData.role, company |-> userData.company, phone |-> userData.phone,
    subscription |-> "freemium", status |-> "pending_verification",
    emailVerified |-> FALSE ]

NoError == "none"

\* what the catch block of login and register does before rethrowing
Rejected(store, message, minutes) ==
  [ store |-> [ store EXCEPT !.isLoading = FALSE ], error |-> message,
    remainingTime |-> minutes ]

\* login(email, password) at time t: the store it leaves and the error it throws
LoginResult(store0, email, password, t) ==
  LET store == [ store0 EXCEPT !.isLoading = TRUE ]
      lockoutStatus == checkAccountLockout(store, email, t)
      deleted == checkDeletedAccount(store, email, "undefined")
  IN IF ~validateEmailFormat(email)
       THEN Rejected(store, "Please enter a valid email address.", 0)
     ELSE IF lockoutStatus.isLocked
       THEN Rejected(
              logAuthenticationAttempt(store,
                [ email |-> email, action |-> "login_failed",
                  reason |-> "Account temporarily locked due to multiple failed attempts",
                  success |-> FALSE,
                  metadata |-> [ lockoutRemainingMinutes |-> lockoutStatus.remainingTime ] ],
                t),
              "Account temporarily locked due to multiple failed login attempts. Please try again in ${lockoutStatus.remainingTime} minutes.",
              lockoutStatus.remainingTime)
     ELSE IF ~checkEmailExists(store, email)
       THEN Rejected(
              logAuthenticationAttempt(store,
                [ email |-> email, action |-> "login_failed",
                  reason |-> "Email address not registered", success |-> FALSE,
                  metadata |-> [ attemptedEmail |-> email ] ], t),
              "No account found with this email address. Please check your email or create a new account.",
              0)
     ELSE IF deleted # 0
       THEN Rejected(
              addDeletionAuditEntry(
                logAuthenticationAttempt(store,
                  [ email |-> email, action |-> "login_failed",
                    reason |-> "Attempted login with deleted account", success |-> FALSE,
                    metadata |-> [ deletedAccountId |-> store.deletedAccounts[deleted].id ] ],
                  t),
                store.deletedAccounts[deleted].id, ReregistrationAttempted),
              "This account has been permanently deleted and cannot be restored. Please contact support if you believe this is an error.",
              0)
     ELSE IF Len(password) < MinPasswordLength
       THEN Rejected(
              logAuthenticationAttempt(store,
                [ email |-> email, action |-> "login_failed",
                  reason |-> "Invalid password", success |-> FALSE,
                  metadata |-> [ none |-> TRUE ] ], t),
              "Invalid email or password. Please try again.", 0)
     ELSE [ store |-> [ logAuthenticationAttempt(store,
                          [ email |-> email, action |-> "login_success",
                            reason |-> "undefined", success |-> TRUE,
                            metadata |-> [ loginMethod |-> "email_password" ] ], t)
                        EXCEPT !.user = mockUser(email),
                               !.isAuthenticated = TRUE,
                               !.isLoading = FALSE ],
            error |-> NoError, remainingTime |-> 0 ]

\* the registration attempt register() logs
RegistrationAttempt(userData, blocked, blockReason, deletedAccountId) ==
  [ email |-> userData.email, firstName |-> userData.firstName,
    lastName |-> userData.lastName, phone |-> userData.phone,
    blocked |-> blocked, blockReason |-> blockReason,
    deletedAccountId |-> deletedAccountId ]

\* the index of the deleted account find() returns for the "similar personal
\* information" test, 0 for undefined
similarAccount(store, userData) ==
  LET hits == { k \in 1..Len(store.deletedAccounts) :
                  LET deleted == store.deletedAccounts[k]
                  IN /\ ToLowerCase(deleted.firstName) = ToLowerCase(userData.firstName)
                     /\ ToLowerCase(deleted.lastName) = ToLowerCase(userData.lastName)
                     /\ (deleted.phone = userData.phone \/ deleted.email = userData.email) }
  IN IF hits = {} THEN 0 ELSE CHOOSE k \in hits : \A j \in hits : k <= j

\* what register() does once every check has passed
Registered(store, userData, token, t) ==
  [ store |->
      [ logAuthenticationAttempt(
          sendEmailVerification(
            [ logRegistrationAttempt(store,
                RegistrationAttempt(userData, FALSE, "undefined", "undefined"), t)
              EXCEPT !.registeredEmails = Append(@, ToLowerCase(userData.email)) ],
            userData.email, token, t),
          [ email |-> userData.email, action |-> "registration_attempt",
            reason |-> "undefined", success |-> TRUE,
            metadata |-> [ registrationMethod |-> "email_password" ] ], t)
        EXCEPT !.user = newUser(userData, t),
               !.isAuthenticated = TRUE,
               !.isLoading = FALSE ],
    error |-> NoError, remainingTime |-> 0 ]

\* register(userData) at time t: the store it leaves and the error it throws
RegisterResult(store0, userData, token, t) ==
  LET store == [ store0 EXCEPT !.isLoading = TRUE ]
      deleted == checkDeletedAccount(store, userData.email, userData.phone)
      similar == similarAccount(store, userData)
  IN IF ~validateEmailFormat(userData.email)
       THEN Rejected(store, "Please enter a valid email address.", 0)
     ELSE IF checkEmailExists(store, userData.email)
       THEN Rejected(
              logAuthenticationAttempt(store,
                [ email |-> userData.email, action |-> "registration_attempt",
                  reason |-> "Email already registered", success |-> FALSE,
                  metadata |-> [ attemptedEmail |-> userData.email ] ], t),
              "An account with this email address already exists. Please use a different email or try logging in.",
              0)
     ELSE IF deleted # 0
       THEN LET deletedAccountId == store.deletedAccounts[deleted].id
            IN Rejected(
                 addDeletionAuditEntry(
                   logAuthenticationAttempt(
                     logRegistrationAttempt(store,
                       RegistrationAttempt(userData, TRUE,
                         "Email/phone associated with permanently deleted account",
                         deletedAccountId), t),
                     [ email |-> userData.email, action |-> "registration_attempt",
                       reason |-> "Attempted registration with deleted account credentials",
                       success |-> FALSE,
                       metadata |-> [ deletedAccountId |-> deletedAccountId ] ], t),
                   deletedAccountId, ReregistrationAttempted),
                 "This email address or phone number is associated with a permanently deleted account and cannot be used for registration. Please use different credentials or contact support.",
                 0)
     ELSE IF similar # 0
       THEN LET similarAccountId == store.deletedAccounts[similar].id
            IN Rejected(
                 addDeletionAuditEntry(
                   logAuthenticationAttempt(
                     logRegistrationAttempt(store,
                       RegistrationAttempt(userData, TRUE,
                         "Similar personal information to deleted account",
                         similarAccountId), t),
                     [ email |-> userData.email, action |-> "registration_attempt",
                       reason |-> "Similar personal information to deleted account",
                       success |-> FALSE,
                       metadata |-> [ similarAccountId |-> similarAccountId ] ], t),
                   similarAccountId, ReregistrationAttempted),
                 "Registration blocked due to security policies. Please contact support for assistance.",
                 0)
     ELSE Registered(store, userData, token, t)

\* logout() at time t
LogoutResult(store, t) ==
  [ ( IF store.user # NullUser
        THEN logAuthenticationAttempt(store,
               [ email |-> store.user.email, action |-> "login_success",
                 reason |-> "User logout", success |-> TRUE,
                 metadata |-> [ action |-> "logout" ] ], t)
        ELSE store )
    EXCEPT !.user = NullUser, !.isAuthenticated = FALSE ]

(***************************************************************************)
(* The component's state.                                                  *)
(***************************************************************************)
VARIABLES
  manufacturers,          \* useAppStore().manufacturers, as the sequence of record ids
  filters,                \* useState<FilterState>
  sortConfig,             \* useState<SortConfig>
  pagination,             \* useState<PaginationConfig>
  selectedRows,           \* useState<Set<string>>
  isLoading,              \* useState(false)
  error,                  \* useState<string | null>
  filteredAndSortedData,  \* useMemo value (record ids)
  paginatedData,          \* useMemo value (record ids)
  mounted,                \* the component has rendered
  effects,                \* what the last handler emitted: toast, CSV, download
  authStore,              \* useAuthStore: the store's state
  now,                    \* Date.now(), in ticks
  authResult,             \* the last call on the auth store and what it threw
  appStore,               \* useAppStore: the store's state
  appCall                 \* the last call on the app store and its argument

tableVars == << manufacturers, filters, sortConfig, pagination, selectedRows, isLoading,
                error, filteredAndSortedData, paginatedData, mounted, effects >>

authVars == << authStore, now, authResult >>

appVars == << appStore, appCall >>

vars == << manufacturers, filters, sortConfig, pagination, selectedRows, isLoading,
           error, filteredAndSortedData, paginatedData, mounted, effects,
           authStore, now, authResult, appStore, appCall >>

NoToast == [kind |-> "none", message |-> "", count |-> 0]
NoEffects == [toast |-> NoToast, csvContent |-> << >>, generated |-> FALSE,
              downloaded |-> FALSE, thrown |-> "none"]

InitialSortConfig == [key |-> "null", direction |-> "asc"]
InitialPagination ==
  [currentPage |-> 1, itemsPerPage |-> 25, totalItems |-> 0, totalPages |-> 0]

(***************************************************************************)
(* The auth store's calls.                                                 *)
(***************************************************************************)
MalformedEmail == << "j", "o", "h", "n", ".", "d", "o", "e", "@", "e", "x", "a", "m", "p", "l", "e" >>
NewEmail == << "n", "e", "w", "@", "x", ".", "i", "o" >>
\* emails as a user types them, upper case included
JohnDoeTyped == << "J", "o", "h", "n", ".", "D", "o", "e", "@", "E", "x", "a", "m", "p", "l", "e", ".", "c", "o", "m" >>
DeletedUserTyped == << "D", "e", "l", "e", "t", "e", "d", ".", "U", "s", "e", "r", "@", "E", "x", "a", "m", "p", "l", "e", ".", "C", "O", "M" >>

\* an email without a local part
NoLocalPartEmail == << "@", "x", ".", "i", "o" >>
MalformedEmails == { MalformedEmail, NoLocalPartEmail }

ShortPassword == << "a", "b", "c" >>
LongPassword == << "a", "b", "c", "d", "e", "f" >>

LoginInputs ==
  { [ email |-> JohnDoeEmail, password |-> ShortPassword ],
    [ email |-> JohnDoeEmail, password |-> LongPassword ],
    [ email |-> MalformedEmail, password |-> LongPassword ] }

UserData(email, phone) ==
  [ email |-> email, password |-> << "A", "b", "c", "d", "e", "f", "1", "x" >>,
    firstName |-> << "A", "n", "n" >>, lastName |-> << "L", "e", "e" >>,
    role |-> "founder", company |-> "", phone |-> phone ]

RegisterInputs ==
  { UserData(MalformedEmail, ""),
    UserData(NoLocalPartEmail, ""),
    UserData(JohnDoeTyped, ""),
    UserData(DeletedUserTyped, ""),
    UserData(NewEmail, "+1-555-0456"),
    UserData(NewEmail, "") }

\* what Math.random() makes of generateVerificationToken()
TokenInputs == { "token_a", "token_b" }

\* no call has returned yet
NoAuthResult ==
  [ op |-> "none", email |-> << >>, password |-> << >>, phone |-> "undefined",
    error |-> NoError, remainingTime |-> 0 ]

InitAuthStore ==
  /\ authStore = InitialAuthState
  /\ now = 0
  /\ authResult = NoAuthResult

(***************************************************************************)
(* The app store (useAppStore): notifications, search and shortlist.       *)
(* Manufacturers are held as record ids, ratings in tenths.                *)
(***************************************************************************)
defaultFilters ==
  [ capabilities |-> << >>, materials |-> << >>, certifications |-> << >>,
    maxDistance |-> 500, minMoq |-> 0, maxMoq |-> 100000, maxLeadTime |-> 365,
    minRating |-> 0 ]

\* create<AppState>(...): the store after construction
InitialAppState ==
  [ manufacturers |-> << >>,
    filteredManufacturers |-> << >>,
    shortlist |-> << >>,
    searchFilters |-> defaultFilters,
    notifications |-> << >>,
    unreadCount |-> 0 ]

\* id and read flag of the mock notifications
mockNotifications ==
  << [ id |-> "n1", read |-> FALSE ], [ id |-> "n2", read |-> FALSE ],
     [ id |-> "n3", read |-> TRUE ], [ id |-> "n4", read |-> FALSE ],
     [ id |-> "n5", read |-> FALSE ] >>

\* addNotification(notification)
AddNotificationResult(store, notification) ==
  [ store EXCEPT !.notifications = << notification >> \o @,
                 !.unreadCount = @ + 1 ]

\* mockNotifications.forEach(notification => addNotification(notification))
RECURSIVE AddNotifications(_, _)
AddNotifications(store, notifications) ==
  IF notifications = << >> THEN store
  ELSE AddNotifications(AddNotificationResult(store, Head(notifications)),
                        Tail(notifications))

\* markNotificationAsRead(notificationId)
MarkNotificationAsReadResult(store, notificationId) ==
  [ store EXCEPT
      !.notifications =
        [ k \in 1..Len(@) |->
            IF @[k].id = notificationId THEN [ @[k] EXCEPT !.read = TRUE ] ELSE @[k] ],
      !.unreadCount = IF @ - 1 > 0 THEN @ - 1 ELSE 0 ]

\* markAllNotificationsAsRead()
MarkAllNotificationsAsReadResult(store) ==
  [ store EXCEPT
      !.notifications = [ k \in 1..Len(@) |-> [ @[k] EXCEPT !.read = TRUE ] ],
      !.unreadCount = 0 ]

\* m.distance || 0: the records carry no distance
DistanceOrZero(m) == IF "distance" \in DOMAIN m THEN m.distance ELSE 0

\* the text search of searchManufacturers
QueryMatches(m, query) ==
  LET searchTerm == ToLowerCase(query)
  IN \/ Includes(ToLowerCase(m.name), searchTerm)
     \/ Includes(ToLowerCase(m.city), searchTerm)
     \/ Includes(ToLowerCase(m.state), searchTerm)
     \/ \E k \in 1..Len(m.capabilities) : Includes(ToLowerCase(m.capabilities[k]), searchTerm)
     \/ \E k \in 1..Len(m.materials) : Includes(ToLowerCase(m.materials[k]), searchTerm)

\* the record is kept by every filter step of searchManufacturers(query);
\* query << >> stands for undefined
KeptBySearch(m, searchFilters, query) ==
  /\ Len(searchFilters.capabilities) > 0 =>
       SomeIncluded(searchFilters.capabilities, m.capabilities)
  /\ Len(searchFilters.materials) > 0 =>
       SomeIncluded(searchFilters.materials, m.materials)
  /\ Len(searchFilters.certifications) > 0 =>
       SomeIncluded(searchFilters.certifications, m.certifications)
  /\ DistanceOrZero(m) <= searchFilters.maxDistance
  /\ m.moq >= searchFilters.minMoq
  /\ m.moq <= searchFilters.maxMoq
  /\ m.leadTimeDays <= searchFilters.maxLeadTime
  /\ m.rating >= searchFilters.minRating
  /\ "diversityFlag" \in DOMAIN searchFilters =>
       m.diversityFlag = searchFilters.diversityFlag
  /\ "minCapacity" \in DOMAIN searchFilters =>
       m.currentCapacity >= searchFilters.minCapacity
  /\ query # << >> => QueryMatches(m, query)

\* searchManufacturers(query)
SearchManufacturersResult(store, query) ==
  [ store EXCEPT !.filteredManufacturers =
      SelectSeq(store.manufacturers,
                LAMBDA id : KeptBySearch(Catalogue[id], store.searchFilters, query)) ]

\* setManufacturers(manufacturers)
SetManufacturersResult(store, manufacturerIds) ==
  [ store EXCEPT !.manufacturers = manufacturerIds,
                 !.filteredManufacturers = manufacturerIds ]

\* setSearchFilters(filters)
SetSearchFiltersResult(store, changes) ==
  SearchManufacturersResult(
    [ store EXCEPT !.searchFilters =
        [ key \in DOMAIN @ \cup DOMAIN changes |->
            IF key \in DOMAIN changes THEN changes[key] ELSE @[key] ] ],
    << >>)

\* the limit of the shortlist
MaxShortlist == 5

\* addToShortlist without the limit
AddToShortlistResult_NoLimit(store, id) ==
  IF ~(\E k \in 1..Len(store.shortlist) : store.shortlist[k] = id)
    THEN [ store EXCEPT !.shortlist = Append(@, id) ]
    ELSE store

\* addToShortlist(manufacturer)
AddToShortlistResult(store, id) ==
  IF /\ Len(store.shortlist) < MaxShortlist
     /\ ~(\E k \in 1..Len(store.shortlist) : store.shortlist[k] = id)
    THEN [ store EXCEPT !.shortlist = Append(@, id) ]
    ELSE store

\* removeFromShortlist(manufacturerId)
RemoveFromShortlistResult(store, manufacturerId) ==
  [ store EXCEPT !.shortlist = SelectSeq(@, LAMBDA id : id # manufacturerId) ]

\* clearShortlist()
ClearShortlistResult(store) == [ store EXCEPT !.shortlist = << >> ]

\* no call has been made yet
NoAppCall == [ op |-> "none" ]

InitAppStore ==
  /\ appStore = InitialAppState
  /\ appCall = NoAppCall

\* the collection 1..n in catalogue order
Collection(n) == [k \in 1..n |-> k]

\* one render: both memos are recomputed and paginatedData's setPagination call
\* stores totalItems and totalPages
Render(currentPage, itemsPerPage) ==
  /\ filteredAndSortedData' = FilterAndSort(manufacturers', filters', sortConfig')
  /\ paginatedData' = PageSlice(filteredAndSortedData', currentPage, itemsPerPage)
  /\ pagination' =
       [ currentPage |-> currentPage,
         itemsPerPage |-> itemsPerPage,
         totalItems |-> Len(filteredAndSortedData'),
         totalPages |-> TotalPages(Len(filteredAndSortedData'), itemsPerPage) ]
  /\ mounted' = TRUE

\* the first render of a freshly constructed component; an exception thrown
\* inside useMemo leaves the component unmounted
RenderTable ==
  /\ ~mounted
  /\ effects.thrown = "none"
  /\ UNCHANGED << manufacturers, filters, sortConfig, selectedRows, isLoading, error >>
  /\ UNCHANGED << authVars, appVars >>
  /\ IF RenderThrows(manufacturers, filters)
       THEN /\ effects' = [ NoEffects EXCEPT !.thrown = "TypeError" ]
            /\ UNCHANGED << filteredAndSortedData, paginatedData, pagination, mounted >>
       ELSE /\ UNCHANGED effects
            /\ Render(pagination.currentPage, pagination.itemsPerPage)

Init ==
  /\ manufacturers \in {Collection(0), Collection(NumRecords)}
  /\ filters = DefaultFilters
  /\ sortConfig = InitialSortConfig
  /\ selectedRows = {}
  /\ isLoading = FALSE
  /\ error = "null"
  /\ filteredAndSortedData = FilterAndSort(manufacturers, filters, sortConfig)
  /\ paginatedData = PageSlice(filteredAndSortedData, InitialPagination.currentPage,
                               InitialPagination.itemsPerPage)
  /\ pagination =
       [ InitialPagination EXCEPT
           !.totalItems = Len(filteredAndSortedData),
           !.totalPages = TotalPages(Len(filteredAndSortedData),
                                     InitialPagination.itemsPerPage) ]
  /\ mounted = TRUE
  /\ effects = NoEffects
  /\ InitAuthStore
  /\ InitAppStore

(***************************************************************************)
(* Inputs of the handlers.                                                 *)
(***************************************************************************)
\* <select> options of the page-size control
ItemsPerPageOptions == {10, 25, 50, 100}

\* values the handlers are called with in the table specification
ScalarInputs ==
  [ search |-> { << >>, <<"A", "B">> },
    employeeRange |-> {"all", "500+"},
    revenueRange |-> {"all", "1M-10M"},
    capacityRange |-> {"all", "low"},
    ratingRange |-> {"all", "4.0+"},
    diversityFlag |-> {"null", "true"},
    sustainabilityMin |-> {0, 100},
    yearEstablishedRange |-> {"all", "30+"} ]

ScalarKeys == DOMAIN ScalarInputs

ArrayInputs ==
  [ capabilities |-> {Welding, Milling},
    materials |-> {Steel},
    certifications |-> {As9},
    states |-> { <<"C", "A">> } ]

ArrayKeys == DOMAIN ArrayInputs

SortKeyInputs == {"name"}

ItemsPerPageInputs == {10, 25}

\* the rows that get selected: the two records with 500 or more employees and
\* the last record, which lies behind the first page of ten
SelectableRows == {5, 6, NumRecords}

(***************************************************************************)
(* Handlers.  Each ends with the render its state change causes.           *)
(***************************************************************************)
\* updateFilter without the reset of currentPage
updateFilter_KeepsPage(key, value) ==
  /\ mounted
  /\ filters' = [filters EXCEPT ![key] = value]
  /\ ActiveFilterCount(filters') <= MaxActiveFilters
  /\ effects' = NoEffects
  /\ UNCHANGED << manufacturers, sortConfig, selectedRows, isLoading, error >>
  /\ UNCHANGED << authVars, appVars >>
  /\ Render(pagination.currentPage, pagination.itemsPerPage)

\* updateFilter(key, value)
updateFilter(key, value) ==
  /\ mounted
  /\ filters' = [filters EXCEPT ![key] = value]
  /\ ActiveFilterCount(filters') <= MaxActiveFilters
  /\ effects' = NoEffects
  /\ UNCHANGED << manufacturers, sortConfig, selectedRows, isLoading, error >>
  /\ UNCHANGED << authVars, appVars >>
  /\ Render(1, pagination.itemsPerPage)

\* currentArray.includes(value) ? currentArray.filter(item => item !== value)
\*                              : [...currentArray, value]
ToggledArray(currentArray, value) ==
  IF ArrayIncludes(currentArray, value)
    THEN SelectSeq(currentArray, LAMBDA item : item # value)
    ELSE Append(currentArray, value)

\* toggleFilterArray(key, value)
toggleFilterArray(key, value) ==
  /\ mounted
  /\ filters' = [filters EXCEPT ![key] = ToggledArray(filters[key], value)]
  /\ ActiveFilterCount(filters') <= MaxActiveFilters
  /\ effects' = NoEffects
  /\ UNCHANGED << manufacturers, sortConfig, selectedRows, isLoading, error >>
  /\ UNCHANGED << authVars, appVars >>
  /\ Render(1, pagination.itemsPerPage)

\* clearAllFilters that also empties the selection
clearAllFilters_ClearsSelection ==
  /\ mounted
  /\ ActiveFilterCount(filters) > 0
  /\ filters' = DefaultFilters
  /\ selectedRows' = {}
  /\ effects' = NoEffects
  /\ UNCHANGED << manufacturers, sortConfig, isLoading, error >>
  /\ UNCHANGED << authVars, appVars >>
  /\ Render(1, pagination.itemsPerPage)

\* clearAllFilters; its button is rendered while activeFilterCount > 0
clearAllFilters ==
  /\ mounted
  /\ ActiveFilterCount(filters) > 0
  /\ filters' = DefaultFilters
  /\ effects' = NoEffects
  /\ UNCHANGED << manufacturers, sortConfig, selectedRows, isLoading, error >>
  /\ UNCHANGED << authVars, appVars >>
  /\ Render(1, pagination.itemsPerPage)

\* handleSort with a memo that sorts the store's array itself instead of the
\* copy manufacturers.filter returns
handleSort_SortsInPlace(key) ==
  /\ mounted
  /\ sortConfig' =
       [ key |-> key,
         direction |-> IF sortConfig.key = key /\ sortConfig.direction = "asc"
                         THEN "desc" ELSE "asc" ]
  /\ effects' = NoEffects
  /\ manufacturers' = SortIds(manufacturers, sortConfig')
  /\ UNCHANGED << filters, selectedRows, isLoading, error >>
  /\ UNCHANGED << authVars, appVars >>
  /\ Render(pagination.currentPage, pagination.itemsPerPage)

\* handleSort(key)
handleSort(key) ==
  /\ mounted
  /\ sortConfig' =
       [ key |-> key,
         direction |-> IF sortConfig.key = key /\ sortConfig.direction = "asc"
                         THEN "desc" ELSE "asc" ]
  /\ effects' = NoEffects
  /\ UNCHANGED << manufacturers, filters, selectedRows, isLoading, error >>
  /\ UNCHANGED << authVars, appVars >>
  /\ Render(pagination.currentPage, pagination.itemsPerPage)

\* the updater without its delete branch
ToggledSelection_NeverDeletes(prev, id) == prev \cup {id}

\* the set toggleRowSelection's updater returns
ToggledSelection(prev, id) ==
  IF id \in prev THEN prev \ {id} ELSE prev \cup {id}

\* toggleRowSelection(id), from the checkbox of a row of the current page
toggleRowSelection(id) ==
  /\ mounted
  /\ \E k \in 1..Len(paginatedData) : Manufacturer(paginatedData[k]).id = id
  /\ selectedRows' = ToggledSelection(selectedRows, id)
  /\ selectedRows' \subseteq SelectableRows
  /\ effects' = NoEffects
  /\ UNCHANGED << manufacturers, filters, sortConfig, isLoading, error >>
  /\ UNCHANGED << authVars, appVars >>
  /\ Render(pagination.currentPage, pagination.itemsPerPage)

\* deselecting drops the whole selection, not only the visible ids
SelectAllResult_ClearsAll(prev, page) ==
  LET allVisible == {Manufacturer(page[k]).id : k \in 1..Len(page)}
      allSelected == \A k \in 1..Len(page) : Manufacturer(page[k]).id \in prev
  IN IF allSelected THEN {} ELSE prev \cup allVisible

\* the set toggleSelectAll's updater returns
SelectAllResult(prev, page) ==
  LET allVisible == {Manufacturer(page[k]).id : k \in 1..Len(page)}
      allSelected == \A k \in 1..Len(page) : Manufacturer(page[k]).id \in prev
  IN IF allSelected THEN prev \ allVisible ELSE prev \cup allVisible

\* toggleSelectAll, from the header checkbox
toggleSelectAll ==
  /\ mounted
  /\ selectedRows' = SelectAllResult(selectedRows, paginatedData)
  /\ selectedRows' \subseteq SelectableRows
  /\ effects' = NoEffects
  /\ UNCHANGED << manufacturers, filters, sortConfig, isLoading, error >>
  /\ UNCHANGED << authVars, appVars >>
  /\ Render(pagination.currentPage, pagination.itemsPerPage)

\* exportData without the early return on an empty selection
exportData_NoEmptyCheck ==
  /\ mounted
  /\ LET selectedData == SelectedData(manufacturers, selectedRows)
         csvContent == GenerateCSV(selectedData)
     IN effects' =
          [ toast |-> [ kind |-> "success",
                        message |-> "Exported manufacturers",
                        count |-> Len(selectedData) ],
            csvContent |-> csvContent,
            generated |-> TRUE,
            downloaded |-> TRUE,
            thrown |-> "none" ]
  /\ error' = error
  /\ isLoading' = FALSE
  /\ UNCHANGED << manufacturers, filters, sortConfig, selectedRows >>
  /\ UNCHANGED << authVars, appVars >>
  /\ Render(pagination.currentPage, pagination.itemsPerPage)

\* exportData that serializes the filtered view instead of the collection
exportData_ExportsView ==
  /\ mounted
  /\ IF Cardinality(selectedRows) = 0
       THEN /\ effects' = [ NoEffects EXCEPT
                              !.toast = [ kind |-> "error",
                                          message |-> "Please select rows to export",
                                          count |-> 0 ] ]
            /\ UNCHANGED << isLoading, error >>
       ELSE LET selectedData == SelectedData(filteredAndSortedData, selectedRows)
                csvContent == GenerateCSV(selectedData)
            IN /\ effects' =
                    [ toast |-> [ kind |-> "success",
                                  message |-> "Exported manufacturers",
                                  count |-> Len(selectedData) ],
                      csvContent |-> csvContent,
                      generated |-> TRUE,
                      downloaded |-> TRUE,
                      thrown |-> "none" ]
               /\ error' = error
               /\ isLoading' = FALSE
  /\ UNCHANGED << manufacturers, filters, sortConfig, selectedRows >>
  /\ UNCHANGED << authVars, appVars >>
  /\ Render(pagination.currentPage, pagination.itemsPerPage)

\* exportData(); for records of type Manufacturer no statement of the try block
\* throws, so the catch branch (setError) is not taken and finally clears isLoading
exportData ==
  /\ mounted
  /\ IF Cardinality(selectedRows) = 0
       THEN /\ effects' = [ NoEffects EXCEPT
                              !.toast = [ kind |-> "error",
                                          message |-> "Please select rows to export",
                                          count |-> 0 ] ]
            /\ UNCHANGED << isLoading, error >>
       ELSE LET selectedData == SelectedData(manufacturers, selectedRows)
                csvContent == GenerateCSV(selectedData)
            IN /\ effects' =
                    [ toast |-> [ kind |-> "success",
                                  message |-> "Exported manufacturers",
                                  count |-> Len(selectedData) ],
                      csvContent |-> csvContent,
                      generated |-> TRUE,
                      downloaded |-> TRUE,
                      thrown |-> "none" ]
               /\ error' = error
               /\ isLoading' = FALSE
  /\ UNCHANGED << manufacturers, filters, sortConfig, selectedRows >>
  /\ UNCHANGED << authVars, appVars >>
  /\ Render(pagination.currentPage, pagination.itemsPerPage)

\* the page-size <select>
setItemsPerPage(value) ==
  /\ mounted
  /\ effects' = NoEffects
  /\ UNCHANGED << manufacturers, filters, sortConfig, selectedRows, isLoading, error >>
  /\ UNCHANGED << authVars, appVars >>
  /\ Render(1, value)

\* "Previous page", disabled on page 1
previousPage ==
  /\ mounted
  /\ pagination.currentPage # 1
  /\ effects' = NoEffects
  /\ UNCHANGED << manufacturers, filters, sortConfig, selectedRows, isLoading, error >>
  /\ UNCHANGED << authVars, appVars >>
  /\ Render(pagination.currentPage - 1, pagination.itemsPerPage)

\* "Next page", disabled on the page whose number is totalPages
nextPage ==
  /\ mounted
  /\ pagination.currentPage # pagination.totalPages
  /\ pagination.currentPage < MaxPage
  /\ effects' = NoEffects
  /\ UNCHANGED << manufacturers, filters, sortConfig, selectedRows, isLoading, error >>
  /\ UNCHANGED << authVars, appVars >>
  /\ Render(pagination.currentPage + 1, pagination.itemsPerPage)

\* one of the page-number buttons 1..min(5, totalPages)
goToPage(pageNum) ==
  /\ mounted
  /\ pageNum \in 1..Min(5, pagination.totalPages)
  /\ effects' = NoEffects
  /\ UNCHANGED << manufacturers, filters, sortConfig, selectedRows, isLoading, error >>
  /\ UNCHANGED << authVars, appVars >>
  /\ Render(pageNum, pagination.itemsPerPage)

Next ==
  \/ \E key \in ScalarKeys : \E value \in ScalarInputs[key] : updateFilter(key, value)
  \/ \E key \in ArrayKeys : \E value \in ArrayInputs[key] : toggleFilterArray(key, value)
  \/ clearAllFilters
  \/ \E key \in SortKeyInputs : handleSort(key)
  \/ \E id \in SelectableRows : toggleRowSelection(id)
  \/ toggleSelectAll
  \/ exportData
  \/ \E value \in ItemsPerPageInputs : setItemsPerPage(value)
  \/ previousPage
  \/ nextPage
  \/ \E pageNum \in 1..5 : goToPage(pageNum)

Spec == Init /\ [][Next]_vars

\* await login(email, password)
login(email, password) ==
  /\ Len(authStore.authenticationLogs) < MaxAuthLogs
  /\ LET result == LoginResult(authStore, email, password, now)
     IN /\ authStore' = result.store
        /\ authResult' = [ op |-> "login", email |-> email, password |-> password,
                           phone |-> "undefined", error |-> result.error,
                           remainingTime |-> result.remainingTime ]
  /\ UNCHANGED << now, tableVars, appVars >>

\* await register(userData)
register(userData, token) ==
  /\ Len(authStore.authenticationLogs) < MaxSessionLogs
  /\ LET result == RegisterResult(authStore, userData, token, now)
     IN /\ authStore' = result.store
        /\ authResult' = [ op |-> "register", email |-> userData.email,
                           password |-> userData.password, phone |-> userData.phone,
                           error |-> result.error,
                           remainingTime |-> result.remainingTime ]
  /\ UNCHANGED << now, tableVars, appVars >>

\* logout()
logout ==
  /\ Len(authStore.authenticationLogs) < MaxSessionLogs
  /\ authStore.user # NullUser
  /\ authStore' = LogoutResult(authStore, now)
  /\ authResult' = [ NoAuthResult EXCEPT !.op = "logout" ]
  /\ UNCHANGED << now, tableVars, appVars >>

\* time passes between two calls
tick ==
  /\ now + TickStep <= MaxTime
  /\ now' = now + TickStep
  /\ UNCHANGED << authStore, authResult, tableVars, appVars >>

InitAuth ==
  /\ Init
  /\ manufacturers = Collection(0)

NextAuth ==
  \/ \E input \in LoginInputs : login(input.email, input.password)
  \/ \E userData \in RegisterInputs : \E token \in TokenInputs : register(userData, token)
  \/ logout
  \/ tick

SpecAuth == InitAuth /\ [][NextAuth]_vars

(***************************************************************************)
(* The filter stage as a function: a freshly constructed table over any of *)
(* a family of collections and filter configurations, rendered once.       *)
(***************************************************************************)
\* at most this many single-key settings are combined in one configuration
MaxCombinedFilters == 2

Reversed(seq) == [k \in 1..Len(seq) |-> seq[Len(seq) + 1 - k]]

FilterCollections ==
  {Collection(0), Collection(NumRecords), Reversed(Collection(NumRecords))}

\* every option of the range selectors, and samples of the free inputs
FilterSettings ==
  [ search |-> { <<"A", "B">>, <<"z", "z">>, <<"i", "S", "o">>, <<"M", "E", "D">> },
    capabilities |-> { <<Welding>>, <<Casting>>, <<Casting, Milling>> },
    materials |-> { <<Steel>>, <<Aluminum>>, <<Steel, Aluminum>> },
    certifications |-> { <<Iso>>, <<As9>>, <<As9, Iso>> },
    states |-> { << <<"C", "A">> >>, << <<"F", "L">> >>, << <<"T", "X">>, <<"N", "Y">> >> },
    employeeRange |-> {"1-25", "26-50", "51-100", "101-250", "251-500", "500+"},
    revenueRange |-> {"0-1M", "1M-10M", "10M-50M", "50M-100M", "100M+"},
    capacityRange |-> {"low", "medium", "high"},
    ratingRange |-> {"4.5+", "4.0+", "3.5+"},
    diversityFlag |-> {"true", "false"},
    sustainabilityMin |-> {50, 100},
    yearEstablishedRange |-> {"0-5", "6-15", "16-30", "30+"} ]

RECURSIVE ConfigsUpTo(_)
ConfigsUpTo(n) ==
  IF n = 0 THEN {DefaultFilters}
  ELSE LET smaller == ConfigsUpTo(n - 1)
       IN smaller \cup
          UNION { UNION { { [c EXCEPT ![key] = value] : value \in FilterSettings[key] }
                          : key \in DOMAIN FilterSettings }
                  : c \in smaller }

FilterConfigs == ConfigsUpTo(MaxCombinedFilters)

InitFilter ==
  /\ manufacturers \in FilterCollections
  /\ filters \in FilterConfigs
  /\ sortConfig = InitialSortConfig
  /\ pagination = InitialPagination
  /\ selectedRows = {}
  /\ isLoading = FALSE
  /\ error = "null"
  /\ filteredAndSortedData = << >>
  /\ paginatedData = << >>
  /\ mounted = FALSE
  /\ effects = NoEffects
  /\ InitAuthStore
  /\ InitAppStore

NextFilter == RenderTable

SpecFilter == InitFilter /\ [][NextFilter]_vars

(***************************************************************************)
(* The pager as a function: collections of every size up to MaxItems under *)
(* every page size, rendered and then paged through.                       *)
(***************************************************************************)
InitPager ==
  /\ manufacturers \in {Collection(n) : n \in 0..MaxItems}
  /\ filters = DefaultFilters
  /\ sortConfig = InitialSortConfig
  /\ \E value \in ItemsPerPageOptions :
        pagination = [InitialPagination EXCEPT !.itemsPerPage = value]
  /\ selectedRows = {}
  /\ isLoading = FALSE
  /\ error = "null"
  /\ filteredAndSortedData = << >>
  /\ paginatedData = << >>
  /\ mounted = FALSE
  /\ effects = NoEffects
  /\ InitAuthStore
  /\ InitAppStore

NextPager ==
  \/ RenderTable
  \/ previousPage
  \/ nextPage
  \/ \E pageNum \in 1..5 : goToPage(pageNum)

SpecPager == InitPager /\ [][NextPager]_vars

(***************************************************************************)
(* Properties.                                                             *)
(***************************************************************************)
SetOf(seq) == {seq[k] : k \in 1..Len(seq)}

\* C1: under the default filter configuration the filter stage returns every
\* record of the input collection, in the input order, for every collection.
C1_DefaultFilterIsIdentity ==
  (mounted /\ filters = DefaultFilters /\ sortConfig.key = "null")
    => filteredAndSortedData = manufacturers

C1_Witness ==
  /\ mounted
  /\ filters = DefaultFilters
  /\ manufacturers = Reversed(Collection(NumRecords))
  /\ filteredAndSortedData = manufacturers

PredicateNames ==
  { "search", "capabilities", "materials", "certifications", "states",
    "employeeRange", "revenueRange", "capacityRange", "ratingRange",
    "diversityFlag", "sustainabilityMin", "yearEstablishedRange" }

PredicateHolds(name, m, f) ==
  CASE name = "search" -> SearchPasses(m, f)
    [] name = "capabilities" -> CapabilitiesPass(m, f)
    [] name = "materials" -> MaterialsPass(m, f)
    [] name = "certifications" -> CertificationsPass(m, f)
    [] name = "states" -> StatesPass(m, f)
    [] name = "employeeRange" -> EmployeeRangePasses(m, f)
    [] name = "revenueRange" -> RevenueRangePasses(m, f)
    [] name = "capacityRange" -> CapacityRangePasses(m, f)
    [] name = "ratingRange" -> RatingRangePasses(m, f)
    [] name = "diversityFlag" -> DiversityPasses(m, f)
    [] name = "sustainabilityMin" -> SustainabilityPasses(m, f)
    [] name = "yearEstablishedRange" -> YearEstablishedPasses(m, f)

\* the values of the attribute a multi-select filter is matched against
AttributeValues(m, key) == IF key = "states" THEN {m.state} ELSE SetOf(m[key])

\* C2: a non-empty multi-select filter leaves only records with a value of the
\* attribute in the selected set; an empty one excludes no record, whatever the
\* other filters are.
C2_MultiSelectFilters ==
  mounted =>
    \A key \in ArrayKeys :
      IF filters[key] # << >>
        THEN \A id \in SetOf(filteredAndSortedData) :
               AttributeValues(Manufacturer(id), key) \cap SetOf(filters[key]) # {}
        ELSE \A id \in SetOf(manufacturers) :
               (\A other \in PredicateNames \ {key} :
                   PredicateHolds(other, Manufacturer(id), filters))
                 => id \in SetOf(filteredAndSortedData)

C2_Witness ==
  /\ mounted
  /\ filters.capabilities = <<Casting, Milling>>
  /\ filters.materials = << >>
  /\ filters.ratingRange = "4.0+"
  /\ filteredAndSortedData # << >>
  /\ Len(filteredAndSortedData) < Len(manufacturers)

RECURSIVE ConcatPages(_, _, _)
\* pages 1..lastPage of data, one after the other
ConcatPages(data, lastPage, itemsPerPage) ==
  IF lastPage = 0 THEN << >>
  ELSE ConcatPages(data, lastPage - 1, itemsPerPage)
         \o PageSlice(data, lastPage, itemsPerPage)

\* C3: the page slices for currentPage = 1..totalPages, concatenated in page
\* order, equal the filtered and sorted collection; every page but the last holds
\* itemsPerPage records and the last holds the remainder.
C3_PagesCoverCollection ==
  mounted =>
    LET r == filteredAndSortedData
        n == pagination.itemsPerPage
        last == pagination.totalPages
    IN /\ pagination.totalItems = Len(r)
       /\ last * n >= Len(r)
       /\ (last - 1) * n < Len(r) \/ last = 0
       /\ ConcatPages(r, last, n) = r
       /\ \A p \in 1..(last - 1) : Len(PageSlice(r, p, n)) = n
       /\ last >= 1 => Len(PageSlice(r, last, n)) = Len(r) - (last - 1) * n
       /\ pagination.currentPage \in 1..last =>
            paginatedData = PageSlice(r, pagination.currentPage, n)

C3_Witness ==
  /\ mounted
  /\ pagination.totalItems = 40
  /\ pagination.itemsPerPage = 25
  /\ pagination.totalPages = 2
  /\ pagination.currentPage = 2
  /\ Len(paginatedData) = 15

Max(a, b) == IF a > b THEN a ELSE b

\* C4: in every reachable state of the table 1 <= currentPage <= max(1, totalPages),
\* with totalPages = ceil(totalItems / itemsPerPage) and totalItems the size of
\* the filtered collection.
C4_CurrentPageWithinBounds ==
  mounted =>
    /\ pagination.totalItems = Len(filteredAndSortedData)
    /\ pagination.totalPages * pagination.itemsPerPage >= pagination.totalItems
    /\ (pagination.totalPages - 1) * pagination.itemsPerPage < pagination.totalItems
         \/ pagination.totalPages = 0
    /\ 1 <= pagination.currentPage
    /\ pagination.currentPage <= Max(1, pagination.totalPages)

C6_SelectionSurvivesViewChanges ==
  [][ ( \/ filters' # filters
        \/ sortConfig' # sortConfig
        \/ pagination'.itemsPerPage # pagination.itemsPerPage
        \/ pagination'.currentPage # pagination.currentPage )
        => selectedRows' = selectedRows ]_vars

C6_Witness ==
  /\ mounted
  /\ filters # DefaultFilters
  /\ sortConfig.key # "null"
  /\ \E id \in selectedRows : id \notin SetOf(filteredAndSortedData)
  /\ \E id \in selectedRows : id \in SetOf(filteredAndSortedData)

\* C7: select-all removes exactly the ids of the current page when all of them
\* are selected and adds exactly them otherwise; ids off the page keep their
\* membership.
C7_SelectAllActsOnCurrentPage ==
  [][ toggleSelectAll =>
        LET pageIds == SetOf(paginatedData)
        IN /\ pageIds \subseteq selectedRows => selectedRows' = selectedRows \ pageIds
           /\ ~(pageIds \subseteq selectedRows) => selectedRows' = selectedRows \cup pageIds
           /\ \A id \in 1..CatalogueSize :
                id \notin pageIds => (id \in selectedRows' <=> id \in selectedRows) ]_vars

C7_Witness ==
  /\ mounted
  /\ pagination.currentPage = 2
  /\ paginatedData = << NumRecords >>
  /\ selectedRows = {5, NumRecords}

\* C8: toggling an id twice in a row returns the selection set to what it was,
\* and one toggle changes the membership of that id only.
C8_ToggleTwiceIsIdentity ==
  /\ [](\A id \in 1..CatalogueSize :
          /\ ToggledSelection(ToggledSelection(selectedRows, id), id) = selectedRows
          /\ (id \in ToggledSelection(selectedRows, id)) # (id \in selectedRows))
  /\ [][ \A id \in SelectableRows : toggleRowSelection(id) =>
           /\ (id \in selectedRows') # (id \in selectedRows)
           /\ selectedRows' \ {id} = selectedRows \ {id} ]_vars

C8_Witness ==
  /\ mounted
  /\ selectedRows = {5, NumRecords}
  /\ pagination.currentPage = 2
  /\ sortConfig.key = "name"

ExportErrorToast ==
  [kind |-> "error", message |-> "Please select rows to export", count |-> 0]

\* C9: export with an empty selection reports an error message and does nothing
\* else: no CSV, no download, loading flag, error state and selection unchanged.
C9_ExportOfEmptySelection ==
  [][ (exportData /\ selectedRows = {}) =>
        /\ effects'.toast = ExportErrorToast
        /\ ~effects'.generated
        /\ ~effects'.downloaded
        /\ UNCHANGED << isLoading, error, selectedRows, filters, sortConfig,
                        manufacturers, pagination >> ]_vars

C9_Witness ==
  /\ mounted
  /\ selectedRows = {}
  /\ effects.toast = ExportErrorToast
  /\ filters # DefaultFilters

\* one step of a CSV reader over the character c.  mode is "out" (outside
\* quotes), "in" (inside a quoted cell) or "quote" (a quote seen inside a quoted
\* cell: a second one is a literal quote, anything else ends the quoted part)
CsvStep(st, c) ==
  IF st.mode = "in"
    THEN IF c = "\"" THEN [st EXCEPT !.mode = "quote"]
         ELSE [st EXCEPT !.cell = Append(st.cell, c)]
  ELSE IF c = "\""
    THEN IF st.mode = "quote"
           THEN [st EXCEPT !.mode = "in", !.cell = Append(st.cell, c)]
           ELSE [st EXCEPT !.mode = "in"]
  ELSE IF c = ","
    THEN [st EXCEPT !.mode = "out", !.cell = << >>, !.row = Append(st.row, st.cell)]
  ELSE IF c = "\n"
    THEN [ mode |-> "out", cell |-> << >>, row |-> << >>,
           rows |-> Append(st.rows, Append(st.row, st.cell)) ]
  ELSE [st EXCEPT !.mode = "out", !.cell = Append(st.cell, c)]

RECURSIVE CsvScan(_, _, _, _)
\* the reader's state after the characters lo..hi of text; the test on left
\* makes the left half be read before the right half starts
CsvScan(text, st, lo, hi) ==
  IF lo > hi THEN st
  ELSE IF lo = hi THEN CsvStep(st, text[lo])
  ELSE LET mid == (lo + hi) \div 2
           left == CsvScan(text, st, lo, mid)
       IN IF left.mode = "none" THEN left ELSE CsvScan(text, left, mid + 1, hi)

\* the rows of cells a CSV reader finds in text
ParseCsv(text) ==
  LET st == CsvScan(text, [mode |-> "out", cell |-> << >>, row |-> << >>, rows |-> << >>],
                    1, Len(text))
  IN Append(st.rows, Append(st.row, st.cell))

\* the ids of the collection that are selected, in the collection's order
SelectedInOrder(ids, selected) == SelectSeq(ids, LAMBDA id : id \in selected)

\* C10: an export with a non-empty selection yields a CSV of one header row of 15
\* columns and one data row per selected id: the selected records of the full
\* collection in its original order, whatever the filter, sort and page are.
C10_ExportRowsAreSelectedRecords ==
  (mounted /\ effects.downloaded) =>
    LET parsed == ParseCsv(effects.csvContent)
        chosen == SelectedInOrder(manufacturers, selectedRows)
    IN /\ Len(parsed) = 1 + Cardinality(selectedRows)
       /\ parsed[1] = Headers
       /\ Len(parsed[1]) = 15
       /\ \A k \in 1..Len(chosen) :
            /\ Len(parsed[k + 1]) = 15
            /\ parsed[k + 1] = CsvRow(Manufacturer(chosen[k]))
       /\ effects.toast.count = Cardinality(selectedRows)

C10_Witness ==
  /\ mounted
  /\ effects.downloaded
  /\ Cardinality(selectedRows) = 2
  /\ sortConfig.key # "null"
  /\ \E id \in selectedRows : id \notin SetOf(filteredAndSortedData)
  /\ Len(ParseCsv(effects.csvContent)) = 3

(***************************************************************************)
(* generateCSV as a function: a table over one or two records whose name   *)
(* and city are arbitrary texts, all rows selected, and the export.        *)
(***************************************************************************)
\* the ids of the records carrying the texts over CellAlphabet
CellTextIds == (CatalogueSize + 1)..(CatalogueSize + NumCellTexts)

\* the id after id among CellTextIds, cyclically
NextCellTextId(id) == IF id = CatalogueSize + NumCellTexts THEN CatalogueSize + 1 ELSE id + 1

InitCsv ==
  /\ manufacturers \in {<< id >> : id \in CellTextIds}
                       \cup {<< id, NextCellTextId(id) >> : id \in CellTextIds}
  /\ filters = DefaultFilters
  /\ sortConfig = InitialSortConfig
  /\ selectedRows = SetOf(manufacturers)
  /\ isLoading = FALSE
  /\ error = "null"
  /\ filteredAndSortedData = FilterAndSort(manufacturers, filters, sortConfig)
  /\ paginatedData = PageSlice(filteredAndSortedData, InitialPagination.currentPage,
                               InitialPagination.itemsPerPage)
  /\ pagination =
       [ InitialPagination EXCEPT
           !.totalItems = Len(filteredAndSortedData),
           !.totalPages = TotalPages(Len(filteredAndSortedData),
                                     InitialPagination.itemsPerPage) ]
  /\ mounted = TRUE
  /\ effects = NoEffects
  /\ InitAuthStore
  /\ InitAppStore

NextCsv == exportData

SpecCsv == InitCsv /\ [][NextCsv]_vars

\* one step of a splitter that keeps the text of every field as written:
\* a double quote switches between inside and outside a quoted part, and a
\* comma or a line feed outside a quoted part ends the field or the row
RawStep(st, c) ==
  IF c = "\""
    THEN [st EXCEPT !.inside = ~st.inside, !.field = Append(st.field, c)]
  ELSE IF st.inside
    THEN [st EXCEPT !.field = Append(st.field, c)]
  ELSE IF c = ","
    THEN [st EXCEPT !.field = << >>, !.row = Append(st.row, st.field)]
  ELSE IF c = "\n"
    THEN [ inside |-> FALSE, field |-> << >>, row |-> << >>,
           rows |-> Append(st.rows, Append(st.row, st.field)) ]
  ELSE [st EXCEPT !.field = Append(st.field, c)]

RECURSIVE RawScan(_, _, _, _)
RawScan(text, st, lo, hi) ==
  IF lo > hi THEN st
  ELSE IF lo = hi THEN RawStep(st, text[lo])
  ELSE LET mid == (lo + hi) \div 2
           left == RawScan(text, st, lo, mid)
       IN IF left.inside \notin BOOLEAN THEN left ELSE RawScan(text, left, mid + 1, hi)

\* the rows of fields of text, every field as written (quotes included)
RawFields(text) ==
  LET st == RawScan(text, [inside |-> FALSE, field |-> << >>, row |-> << >>,
                           rows |-> << >>], 1, Len(text))
  IN Append(st.rows, Append(st.row, st.field))

RECURSIVE HalveQuotes(_)
\* every pair of adjacent double quotes becomes one double quote
HalveQuotes(s) ==
  IF s = << >> THEN << >>
  ELSE IF Len(s) >= 2 /\ s[1] = "\"" /\ s[2] = "\""
    THEN << "\"" >> \o HalveQuotes(SubSeq(s, 3, Len(s)))
  ELSE << Head(s) >> \o HalveQuotes(Tail(s))

\* strip the outer quotes, halve the doubled quotes
Unquote(field) == HalveQuotes(SubSeq(field, 2, Len(field) - 1))

CountQuotes(s) == Cardinality({k \in 1..Len(s) : s[k] = "\""})

\* C11: every cell of every row of the generated CSV, the header row included,
\* is written between double quotes with every double quote of the cell
\* doubled, whether or not the cell needs it, and stripping the outer quotes
\* and halving the doubled ones gives back the cell's text.
C11_EveryCellQuotedAndRecoverable ==
  (mounted /\ effects.generated) =>
    LET cells == CsvRows(SelectedData(manufacturers, selectedRows))
        fields == RawFields(effects.csvContent)
    IN /\ Len(fields) = Len(cells)
       /\ \A r \in 1..Len(cells) :
            /\ Len(fields[r]) = Len(cells[r])
            /\ \A k \in 1..Len(cells[r]) :
                 LET field == fields[r][k]
                 IN /\ Len(field) >= 2
                    /\ field[1] = "\""
                    /\ field[Len(field)] = "\""
                    /\ CountQuotes(field) = 2 + 2 * CountQuotes(cells[r][k])
                    /\ Len(field) = 2 + Len(cells[r][k]) + CountQuotes(cells[r][k])
                    /\ Unquote(field) = cells[r][k]

C11_Witness ==
  /\ mounted
  /\ effects.generated
  /\ Len(manufacturers) = 2
  /\ \E k \in 1..2 :
       LET m == Manufacturer(manufacturers[k])
       IN /\ m.name = << "\"", ",", "\"" >>
          /\ RawFields(effects.csvContent)[k + 1][1] =
               << "\"", "\"", "\"", ",", "\"", "\"", "\"" >>
          /\ RawFields(effects.csvContent)[k + 1][5][2] \in SetOf(Digits)

(***************************************************************************)
(* Properties of the auth store.                                           *)
(***************************************************************************)
LockedMessage ==
  "Account temporarily locked due to multiple failed login attempts. Please try again in ${lockoutStatus.remainingTime} minutes."

\* the step is a call of op that changed the store
AuthCall(op) ==
  /\ authResult'.op = op
  /\ authStore' # authStore

\* the timestamps of the failed logins logged for email less than 15 minutes
\* before the time t
FailedLoginTimes(logs, email, t) ==
  { logs[k].timestamp : k \in { j \in 1..Len(logs) :
                                  /\ logs[j].email = email
                                  /\ logs[j].action = "login_failed"
                                  /\ t - logs[j].timestamp < LockoutWindow } }

FailedLoginCount(logs, email, t) ==
  Cardinality({ j \in 1..Len(logs) :
                  /\ logs[j].email = email
                  /\ logs[j].action = "login_failed"
                  /\ t - logs[j].timestamp < LockoutWindow })

\* the whole minutes, rounded up, from t to 15 minutes after the last failure
MinutesUntilUnlock(logs, email, t) ==
  LET last == CHOOSE x \in FailedLoginTimes(logs, email, t) :
                \A y \in FailedLoginTimes(logs, email, t) : y <= x
  IN CHOOSE m \in 0..LockoutMinutes :
       /\ m * TicksPerMinute >= last + LockoutWindow - t
       /\ (m - 1) * TicksPerMinute < last + LockoutWindow - t

IsDeletedEmail(store, email) ==
  \E k \in 1..Len(store.deletedAccounts) :
    ToLowerCase(store.deletedAccounts[k].email) = ToLowerCase(email)

\* C13: a register call with the email of a deleted account, in any case, is
\* rejected; it appends exactly one entry, with blocked = true, to
\* registrationAttempts and leaves registeredEmails, user and isAuthenticated
\* as they were, so a null user stays null.
C13_RegisterWithDeletedEmailIsBlocked ==
  [][ ( /\ AuthCall("register")
        /\ IsDeletedEmail(authStore, authResult'.email) )
      => /\ authResult'.error # NoError
         /\ Len(authStore'.registrationAttempts) = Len(authStore.registrationAttempts) + 1
         /\ SubSeq(authStore'.registrationAttempts, 1, Len(authStore.registrationAttempts))
              = authStore.registrationAttempts
         /\ authStore'.registrationAttempts[Len(authStore'.registrationAttempts)].blocked
         /\ authStore'.registrationAttempts[Len(authStore'.registrationAttempts)].email
              = authResult'.email
         /\ authStore'.registeredEmails = authStore.registeredEmails
         /\ authStore'.user = authStore.user
         /\ authStore'.isAuthenticated = authStore.isAuthenticated ]_vars

C13_Witness ==
  /\ authResult.op = "register"
  /\ authResult.email = DeletedUserTyped
  /\ authResult.email # DeletedUserEmail
  /\ authResult.error # NoError
  /\ authStore.user = NullUser
  /\ ~authStore.isAuthenticated
  /\ Len(authStore.registrationAttempts) = 1
  /\ authStore.registrationAttempts[1].blocked
  /\ authStore.registeredEmails = mockRegisteredEmails

\* the email is, up to case, a registered email
IsRegisteredEmail(store, email) ==
  \E k \in 1..Len(store.registeredEmails) :
    store.registeredEmails[k] = ToLowerCase(email)

\* the phone number is the phone number of a deleted account
IsDeletedPhone(store, phone) ==
  /\ phone \notin {"undefined", ""}
  /\ \E k \in 1..Len(store.deletedAccounts) : store.deletedAccounts[k].phone = phone

\* the step is one of the business-rule rejections: a register with a
\* registered email, a register with the email or the phone of a deleted
\* account, a login during a lockout
BusinessRuleRejection ==
  \/ /\ AuthCall("register")
     /\ \/ IsRegisteredEmail(authStore, authResult'.email)
        \/ IsDeletedEmail(authStore, authResult'.email)
        \/ IsDeletedPhone(authStore, authResult'.phone)
  \/ /\ AuthCall("login")
     /\ FailedLoginCount(authStore.authenticationLogs, authResult'.email, now)
          >= MaxFailedAttempts

\* C14: every business-rule rejection appends at least one entry with
\* success = false to authenticationLogs and aborts the call: it throws, and
\* registeredEmails, user and isAuthenticated are as before the call.
C14_RejectionsAreLoggedAndAbort ==
  [][ BusinessRuleRejection
      => /\ authResult'.error # NoError
         /\ Len(authStore'.authenticationLogs) > Len(authStore.authenticationLogs)
         /\ SubSeq(authStore'.authenticationLogs, 1, Len(authStore.authenticationLogs))
              = authStore.authenticationLogs
         /\ \E k \in (Len(authStore.authenticationLogs) + 1)
                       ..Len(authStore'.authenticationLogs) :
              /\ ~authStore'.authenticationLogs[k].success
              /\ authStore'.authenticationLogs[k].email = authResult'.email
         /\ authStore'.registeredEmails = authStore.registeredEmails
         /\ authStore'.user = authStore.user
         /\ authStore'.isAuthenticated = authStore.isAuthenticated ]_vars

\* a register with a registered email typed in upper case was rejected while a
\* user was signed in
C14_Witness ==
  /\ authResult.op = "register"
  /\ authResult.email = JohnDoeTyped
  /\ authResult.error # NoError
  /\ authStore.isAuthenticated
  /\ authStore.user # NullUser
  /\ Len(authStore.authenticationLogs) = 2
  /\ ~authStore.authenticationLogs[2].success

\* C15: a login or register call with a malformed email is rejected and leaves
\* every field of the store as it was before the call.
C15_MalformedEmailMutatesNothing ==
  [][ ( /\ authResult'.op \in {"login", "register"}
        /\ authResult'.email \in MalformedEmails
        /\ authResult' # authResult )
      => /\ authResult'.error = "Please enter a valid email address."
         /\ authStore'.registeredEmails = authStore.registeredEmails
         /\ authStore'.deletedAccounts = authStore.deletedAccounts
         /\ authStore'.authenticationLogs = authStore.authenticationLogs
         /\ authStore'.registrationAttempts = authStore.registrationAttempts
         /\ authStore'.emailVerifications = authStore.emailVerifications
         /\ authStore'.user = authStore.user
         /\ authStore'.isAuthenticated = authStore.isAuthenticated
         /\ authStore'.isLoading = authStore.isLoading ]_vars

\* a register with a malformed email was rejected in a store that already had
\* a signed-in user, a log and a pending verification
C15_Witness ==
  /\ authResult.op = "register"
  /\ authResult.email = NoLocalPartEmail
  /\ authResult.error = "Please enter a valid email address."
  /\ authStore.user # NullUser
  /\ authStore.authenticationLogs # << >>
  /\ authStore.emailVerifications # << >>
  /\ ~authStore.isLoading

(***************************************************************************)
(* The filter on records that lack an attribute: a table over a collection *)
(* holding one such record, under one filter setting, and its first render.*)
(***************************************************************************)
\* the ids of the records with an undefined attribute
IncompleteIds ==
  (CatalogueSize + NumCellTexts + 1)..(CatalogueSize + NumCellTexts + Len(AttributeNames))

InitMissing ==
  /\ manufacturers \in { << 1, id, 2 >> : id \in IncompleteIds }
  /\ filters \in ConfigsUpTo(1)
  /\ sortConfig = InitialSortConfig
  /\ pagination = InitialPagination
  /\ selectedRows = {}
  /\ isLoading = FALSE
  /\ error = "null"
  /\ filteredAndSortedData = << >>
  /\ paginatedData = << >>
  /\ mounted = FALSE
  /\ effects = NoEffects
  /\ InitAuthStore
  /\ InitAppStore

NextMissing == RenderTable

SpecMissing == InitMissing /\ [][NextMissing]_vars

\* the active filters of f read the attribute of the record
FilterReads(f, attribute) ==
  \/ f.search # << >> /\ attribute \in { "name", "city", "state", "industryKeywords",
                                        "primaryApplications", "capabilities", "materials" }
  \/ Len(f.capabilities) > 0 /\ attribute = "capabilities"
  \/ Len(f.materials) > 0 /\ attribute = "materials"
  \/ Len(f.certifications) > 0 /\ attribute = "certifications"
  \/ Len(f.states) > 0 /\ attribute = "state"
  \/ f.employeeRange # "all" /\ attribute = "numberOfEmployees"
  \/ f.revenueRange # "all" /\ attribute = "annualRevenue"
  \/ f.capacityRange # "all" /\ attribute = "currentCapacity"
  \/ f.ratingRange # "all" /\ attribute = "rating"
  \/ f.diversityFlag # "null" /\ attribute = "diversityFlag"
  \/ f.sustainabilityMin > 0 /\ attribute = "sustainabilityScore"
  \/ f.yearEstablishedRange # "all" /\ attribute = "yearEstablished"

\* C16: evaluating the filter never throws, and once the table is rendered a
\* record lacking an attribute that an active filter reads is not in the
\* filter output
C16_MissingAttributeFailsFilterNeverThrows ==
  /\ effects.thrown = "none"
  /\ mounted =>
       \A k \in 1..Len(manufacturers) :
         \A attribute \in Manufacturer(manufacturers[k]).missing :
           FilterReads(filters, attribute) =>
             manufacturers[k] \notin SetOf(filteredAndSortedData)

\* the bucket filters: the filters whose setting is one of a fixed set of labels
\* for numeric ranges
BucketFilters == { "employeeRange", "revenueRange", "capacityRange", "yearEstablishedRange" }

\* the record passes the bucket filter key under the label
BucketPasses(key, m, label) ==
  LET f == [ DefaultFilters EXCEPT ![key] = label ]
  IN CASE key = "employeeRange" -> EmployeeRangePasses(m, f)
       [] key = "revenueRange" -> RevenueRangePasses(m, f)
       [] key = "capacityRange" -> CapacityRangePasses(m, f)
       [] key = "yearEstablishedRange" -> YearEstablishedPasses(m, f)

\* C17: a record in the output of a table filtered by a bucket label passes
\* under no other label of the same bucket filter
C17_BucketLabelsMutuallyExclusive ==
  mounted =>
    \A id \in SetOf(filteredAndSortedData) :
      \A key \in BucketFilters :
        filters[key] # "all" =>
          \A label \in FilterSettings[key] \ { filters[key] } :
            ~BucketPasses(key, Manufacturer(id), label)

\* the text the search is to look in: name, city, state, classification
\* keywords and the members of capabilities, materials and certifications
SearchedAttributesText(m) ==
  ToLowerCase(Join(<< m.name, m.city, m.state, m.industryKeywords >>
                     \o m.capabilities \o m.materials \o m.certifications,
                   << " " >>))

\* search is the only filter that is set
OnlySearchIsSet(f) == f.search # << >> /\ [ f EXCEPT !.search = << >> ] = DefaultFilters

\* C18: under a non-empty search string and no other filter, a record is in the
\* filter output if and only if the lower-cased term occurs in the lower-cased
\* text of its name, city, state, classification keywords, capabilities,
\* materials and certifications
C18_SearchCoversAllSetValuedAttributes ==
  (mounted /\ OnlySearchIsSet(filters)) =>
    \A k \in 1..Len(manufacturers) :
      manufacturers[k] \in SetOf(filteredAndSortedData)
        <=> Includes(SearchedAttributesText(Manufacturer(manufacturers[k])),
                     ToLowerCase(filters.search))

(***************************************************************************)
(* Sorting: a table over a short collection in any order, its first render *)
(* and clicks on the sortable column headers.                              *)
(***************************************************************************)
MaxSortLen == 3
NumSortIds == 5

\* the keys of the sortable column headers
SortKeys == { "name", "state", "numberOfEmployees", "annualRevenue", "rating",
              "currentCapacity" }

\* the collections of at most MaxSortLen different records among the first
\* NumSortIds, in every order
SortCollections ==
  { ids \in UNION { [1..n -> 1..NumSortIds] : n \in 0..MaxSortLen } :
      \A i, j \in 1..Len(ids) : i # j => ids[i] # ids[j] }

\* no filter, and a filter that some of the records pass
SortFilters == { DefaultFilters, [ DefaultFilters EXCEPT !.states = << <<"T", "X">> >> ] }

InitSort ==
  /\ manufacturers \in SortCollections
  /\ filters \in SortFilters
  /\ sortConfig = InitialSortConfig
  /\ pagination = InitialPagination
  /\ selectedRows = {}
  /\ isLoading = FALSE
  /\ error = "null"
  /\ filteredAndSortedData = << >>
  /\ paginatedData = << >>
  /\ mounted = FALSE
  /\ effects = NoEffects
  /\ InitAuthStore
  /\ InitAppStore

NextSort ==
  \/ RenderTable
  \/ \E key \in SortKeys : handleSort(key)

SpecSort == InitSort /\ [][NextSort]_vars

\* the records of the collection differ pairwise in the value of the key
DistinctSortValues(ids, key) ==
  \A i, j \in 1..Len(ids) :
    i # j => Manufacturer(ids[i])[key] # Manufacturer(ids[j])[key]

OtherDirection(direction) == IF direction = "asc" THEN "desc" ELSE "asc"

\* C19: a click on the header of the column the table is sorted by switches
\* the direction, from ascending to descending and from descending to
\* ascending, and when the records differ pairwise in that column the sorted
\* output after the click is the reverse of the sorted output before it
C19_DescendingIsReverseOfAscending ==
  [][ \A key \in SortKeys :
        (handleSort(key) /\ sortConfig.key = key) =>
          /\ sortConfig' = [ key |-> key, direction |-> OtherDirection(sortConfig.direction) ]
          /\ DistinctSortValues(manufacturers, key) =>
               filteredAndSortedData' = Reversed(filteredAndSortedData) ]_vars

\* three records with pairwise different values of the sort key, given in
\* neither sorted order, sorted descending after a second click on the header
C19_Witness ==
  /\ mounted
  /\ sortConfig.key # "null"
  /\ sortConfig.direction = "desc"
  /\ Len(manufacturers) = MaxSortLen
  /\ DistinctSortValues(manufacturers, sortConfig.key)
  /\ filteredAndSortedData # manufacturers
  /\ filteredAndSortedData # Reversed(manufacturers)
  /\ SetOf(filteredAndSortedData) = SetOf(manufacturers)

\* the place of the record in the collection
PositionIn(ids, id) == CHOOSE k \in 1..Len(ids) : ids[k] = id

\* C20: without a sort key the output holds exactly the records of the
\* collection that pass the filter, in the collection's order; and no step of
\* the table, filtering or sorting, changes the collection
C20_NoSortKeyKeepsOrderAndCollection ==
  /\ [] ( (mounted /\ sortConfig.key = "null") =>
            /\ SetOf(filteredAndSortedData) =
                 { id \in SetOf(manufacturers) : PassesFilters(Manufacturer(id), filters) }
            /\ \A i, j \in 1..Len(filteredAndSortedData) :
                 i < j => PositionIn(manufacturers, filteredAndSortedData[i])
                            < PositionIn(manufacturers, filteredAndSortedData[j]) )
  /\ [][ manufacturers' = manufacturers ]_vars

\* a rendered table without sort key over three records not in the order of
\* their ids, of which the filter lets two by
C20_Witness ==
  /\ mounted
  /\ sortConfig.key = "null"
  /\ filters # DefaultFilters
  /\ Len(manufacturers) = MaxSortLen
  /\ manufacturers[1] > manufacturers[2]
  /\ Len(filteredAndSortedData) = 2
  /\ filteredAndSortedData[1] > filteredAndSortedData[2]

\* C21: filtering the output of the filter again, under the same filter
\* settings, returns that output: the same records in the same order
C21_FilterIsIdempotent ==
  (mounted /\ sortConfig.key = "null") =>
    FilterIds(filteredAndSortedData, filters) = filteredAndSortedData

\* a rendered table whose filter lets some records by and holds others back
C21_Witness ==
  /\ mounted
  /\ sortConfig.key = "null"
  /\ ActiveFilterCount(filters) = MaxCombinedFilters
  /\ Len(filteredAndSortedData) > 1
  /\ Len(filteredAndSortedData) < Len(manufacturers)

(***************************************************************************)
(* The lockout over a longer history: logins for one registered email,     *)
(* with a rejected and an accepted password, and the passing of time.      *)
(***************************************************************************)
MaxLockoutLogs == 11
MaxSuccessfulLogins == 1

\* await login(email, password) while the log holds fewer than maxLogs entries
loginWithin(maxLogs, email, password) ==
  /\ Len(authStore.authenticationLogs) < maxLogs
  /\ LET result == LoginResult(authStore, email, password, now)
     IN /\ authStore' = result.store
        /\ authResult' = [ op |-> "login", email |-> email, password |-> password,
                           phone |-> "undefined", error |-> result.error,
                           remainingTime |-> result.remainingTime ]
  /\ UNCHANGED << now, tableVars, appVars >>

\* the logins that were accepted
SuccessfulLogins(store) ==
  SelectSeq(store.authenticationLogs, LAMBDA log : log.action = "login_success")

NextLockout ==
  \/ loginWithin(MaxLockoutLogs, JohnDoeEmail, ShortPassword)
  \/ /\ Len(SuccessfulLogins(authStore)) < MaxSuccessfulLogins
     /\ loginWithin(MaxLockoutLogs, JohnDoeEmail, LongPassword)
  \/ tick

SpecLockout == InitAuth /\ [][NextLockout]_vars

LockedReason == "Account temporarily locked due to multiple failed attempts"

\* the failed logins for email less than 15 minutes before t that no accepted
\* login for email has followed
FailuresSinceSuccess(logs, email, t) ==
  { j \in 1..Len(logs) :
      /\ logs[j].email = email
      /\ logs[j].action = "login_failed"
      /\ t - logs[j].timestamp < LockoutWindow
      /\ \A k \in (j + 1)..Len(logs) :
           ~(logs[k].email = email /\ logs[k].action = "login_success") }

\* C22: a login for an email with fewer than five failed logins since the last
\* accepted login for that email (and in the last 15 minutes) is not rejected
\* as locked
C22_SuccessfulLoginResetsFailures ==
  [][ ( /\ AuthCall("login")
        /\ Cardinality(FailuresSinceSuccess(authStore.authenticationLogs,
                                            authResult'.email, now))
             < MaxFailedAttempts )
      => authResult'.error # LockedMessage ]_vars

\* the failed logins for email less than 15 minutes before t that were not
\* rejections of a locked account
RealFailures(logs, email, t) ==
  { j \in 1..Len(logs) :
      /\ logs[j].email = email
      /\ logs[j].action = "login_failed"
      /\ logs[j].reason # LockedReason
      /\ t - logs[j].timestamp < LockoutWindow }

\* C26: a login for an email whose failures other than rejections of the
\* locked account all lie 15 minutes or more back is not rejected as locked,
\* however often the client retried during the lockout
C26_LockEndsFifteenMinutesAfterFifthFailure ==
  [][ ( /\ AuthCall("login")
        /\ RealFailures(authStore.authenticationLogs, authResult'.email, now) = {} )
      => authResult'.error # LockedMessage ]_vars

(***************************************************************************)
(* The account page: profile changes and the deletion of the account,      *)
(* between logins, registrations and logouts.                              *)
(***************************************************************************)
MaxAccountLogs == 4

\* { ...object, ...changes }
Spread(object, changes) ==
  [ key \in DOMAIN object \cup DOMAIN changes |->
      IF key \in DOMAIN changes THEN changes[key] ELSE object[key] ]

\* updateUser(userData)
UpdateUserResult(store, userData) ==
  IF store.user # NullUser
    THEN [ store EXCEPT !.user = Spread(store.user, userData) ]
    ELSE store

\* the record deleteAccount(reason) makes of the user at time t
DeletedAccountOf(user, reason, t) ==
  [ id |-> "del_" \o ToString(t),
    originalUserId |-> user.id,
    email |-> user.email,
    firstName |-> user.firstName,
    lastName |-> user.lastName,
    phone |-> user.phone,
    deletionReason |-> reason,
    auditTrail |-> << [ action |-> "account_deleted", performedBy |-> user.id ] >> ]

\* a deletion that leaves the registered emails as they are
DeleteAccountResult_KeepsRegistered(store, reason, t) ==
  IF store.user = NullUser
    THEN [ store |-> store, error |-> "No user to delete" ]
    ELSE LET user == store.user
         IN [ store |->
                [ logAuthenticationAttempt(
                    [ store EXCEPT
                        !.deletedAccounts = Append(@, DeletedAccountOf(user, reason, t)) ],
                    [ email |-> user.email, action |-> "login_success",
                      reason |-> "Account deletion completed", success |-> TRUE,
                      metadata |-> [ action |-> "account_deletion", reason |-> reason ] ],
                    t)
                  EXCEPT !.user = Spread(user, [ status |-> "deleted",
                                                 deletionReason |-> reason ]) ],
              error |-> NoError ]

\* deleteAccount(reason) at time t: the store it leaves and the error it throws
DeleteAccountResult(store, reason, t) ==
  IF store.user = NullUser
    THEN [ store |-> store, error |-> "No user to delete" ]
    ELSE LET user == store.user
         IN [ store |->
                [ logAuthenticationAttempt(
                    [ store EXCEPT
                        !.registeredEmails =
                          SelectSeq(@, LAMBDA email : email # ToLowerCase(user.email)),
                        !.deletedAccounts = Append(@, DeletedAccountOf(user, reason, t)) ],
                    [ email |-> user.email, action |-> "login_success",
                      reason |-> "Account deletion completed", success |-> TRUE,
                      metadata |-> [ action |-> "account_deletion", reason |-> reason ] ],
                    t)
                  EXCEPT !.user = Spread(user, [ status |-> "deleted",
                                                 deletionReason |-> reason ]) ],
              error |-> NoError ]

\* what the profile form submits
AccountFormData(email, company) ==
  [ firstName |-> << "J", "o", "h", "n" >>, lastName |-> << "D", "o", "e" >>,
    email |-> email, company |-> company, phone |-> "+1 (555) 123-4567",
    role |-> "founder" ]

ProfileInputs ==
  { AccountFormData(JohnDoeTyped, "Acme"),
    AccountFormData(NewEmail, "TechStart Inc.") }

AccountLoginInputs == { JohnDoeTyped, DeletedUserEmail, NewEmail }

AccountRegisterInputs == { UserData(NewEmail, ""), UserData(DeletedUserTyped, "") }

DeletionReasons == { "No longer needed" }

\* updateUser(userData), as the profile form's onSubmit calls it
updateUser(userData) ==
  /\ authStore' = UpdateUserResult(authStore, userData)
  /\ authResult' = [ NoAuthResult EXCEPT !.op = "updateUser", !.email = userData.email ]
  /\ UNCHANGED << now, tableVars, appVars >>

\* await deleteAccount(reason)
deleteAccount(reason) ==
  /\ Len(authStore.authenticationLogs) < MaxAccountLogs
  /\ LET result == DeleteAccountResult(authStore, reason, now)
     IN /\ authStore' = result.store
        /\ authResult' = [ NoAuthResult EXCEPT !.op = "deleteAccount",
                                               !.error = result.error ]
  /\ UNCHANGED << now, tableVars, appVars >>

\* logout() while the log holds fewer than maxLogs entries
logoutWithin(maxLogs) ==
  /\ Len(authStore.authenticationLogs) < maxLogs
  /\ authStore.user # NullUser
  /\ authStore' = LogoutResult(authStore, now)
  /\ authResult' = [ NoAuthResult EXCEPT !.op = "logout" ]
  /\ UNCHANGED << now, tableVars, appVars >>

\* await register(userData) while the log holds fewer than maxLogs entries
registerWithin(maxLogs, userData, token) ==
  /\ Len(authStore.authenticationLogs) < maxLogs
  /\ LET result == RegisterResult(authStore, userData, token, now)
     IN /\ authStore' = result.store
        /\ authResult' = [ op |-> "register", email |-> userData.email,
                           password |-> userData.password, phone |-> userData.phone,
                           error |-> result.error,
                           remainingTime |-> result.remainingTime ]
  /\ UNCHANGED << now, tableVars, appVars >>

NextAccount ==
  \/ \E email \in AccountLoginInputs : loginWithin(MaxAccountLogs, email, LongPassword)
  \/ \E userData \in AccountRegisterInputs : registerWithin(MaxAccountLogs, userData, "token_a")
  \/ logoutWithin(MaxAccountLogs)
  \/ \E userData \in ProfileInputs : updateUser(userData)
  \/ \E reason \in DeletionReasons : deleteAccount(reason)
  \/ tick

SpecAccount == InitAuth /\ [][NextAccount]_vars

\* C23: no registered email is, up to case, the email of a deleted account
C23_RegisteredAndDeletedDisjoint ==
  \A k \in 1..Len(authStore.registeredEmails) :
    ~IsDeletedEmail(authStore, authStore.registeredEmails[k])

\* an account was registered and deleted, and a later registration with its
\* email was rejected
C23_Witness ==
  /\ Len(authStore.deletedAccounts) = Len(mockDeletedAccounts) + 1
  /\ authStore.deletedAccounts[Len(mockDeletedAccounts) + 1].email = NewEmail
  /\ authResult.op = "register"
  /\ authResult.email = NewEmail
  /\ authResult.error # NoError
  /\ authStore.registeredEmails = mockRegisteredEmails

\* the log entry records an accepted login or a completed registration
IsSignIn(log) ==
  \/ log.action = "login_success" /\ "loginMethod" \in DOMAIN log.metadata
  \/ log.action = "registration_attempt" /\ log.success

\* the email the current user signed in or registered with
SignInEmail(logs) ==
  logs[CHOOSE k \in 1..Len(logs) :
         /\ IsSignIn(logs[k])
         /\ \A j \in (k + 1)..Len(logs) : ~IsSignIn(logs[j])].email

\* C24: after a deleteAccount that succeeded, the email the user signed in or
\* registered with is not a registered email any more
C24_DeletedAccountEmailIsUnregistered ==
  [][ ( /\ authResult'.op = "deleteAccount"
        /\ authResult'.error = NoError
        /\ authStore' # authStore )
      => ~checkEmailExists(authStore', SignInEmail(authStore.authenticationLogs)) ]_vars

\* the audit trails of the deleted accounts with the email, up to case
AuditTrailsOf(store, email) ==
  [ k \in { j \in 1..Len(store.deletedAccounts) :
              ToLowerCase(store.deletedAccounts[j].email) = ToLowerCase(email) }
      |-> store.deletedAccounts[k].auditTrail ]

\* C25: a login with a well-formed email of a deleted account, not locked, is
\* rejected and logged with the reason 'Attempted login with deleted account',
\* and the audit trail of that deleted account gains one
\* 'reregistration_attempted' entry
C25_LoginWithDeletedEmailIsAudited ==
  [][ ( /\ AuthCall("login")
        /\ validateEmailFormat(authResult'.email)
        /\ ~checkAccountLockout(authStore, authResult'.email, now).isLocked
        /\ IsDeletedEmail(authStore, authResult'.email) )
      => /\ authResult'.error # NoError
         /\ authStore'.authenticationLogs[Len(authStore'.authenticationLogs)].reason
              = "Attempted login with deleted account"
         /\ \E k \in DOMAIN AuditTrailsOf(authStore, authResult'.email) :
              AuditTrailsOf(authStore', authResult'.email)[k]
                = Append(AuditTrailsOf(authStore, authResult'.email)[k],
                         ReregistrationAttempted) ]_vars

(***************************************************************************)
(* Email verification: tokens are sent, sent again and redeemed.           *)
(***************************************************************************)
MaxVerifications == 3

\* what generateVerificationToken() can return; two calls never return the
\* same token
VerificationTokens == { "token_a", "token_b", "token_c" }

VerificationEmails == { NewEmail, JohnDoeEmail }

\* the tokens generateVerificationToken() has not returned yet
FreshTokens(store) ==
  VerificationTokens
    \ { store.emailVerifications[k].token : k \in 1..Len(store.emailVerifications) }

\* the set() of resendEmailVerification(email) at time t
InvalidateTokens(store, email, t) ==
  [ store EXCEPT !.emailVerifications =
      [ k \in 1..Len(@) |->
          IF @[k].email = email THEN [ @[k] EXCEPT !.expiresAt = t ] ELSE @[k] ] ]

\* resendEmailVerification(email) at time t
ResendResult(store, email, token, t) ==
  sendEmailVerification(InvalidateTokens(store, email, t), email, token, t)

\* emailVerifications.find(v => v.token === token && !v.verified): its index,
\* 0 for undefined
FindVerification(store, token) ==
  LET found == { k \in 1..Len(store.emailVerifications) :
                   /\ store.emailVerifications[k].token = token
                   /\ ~store.emailVerifications[k].verified }
  IN IF found = {} THEN 0 ELSE CHOOSE k \in found : \A j \in found : k <= j

\* verifyEmail with an expiry test that also rejects at the instant of expiry
VerifyEmailResult_ExpiredAtExpiry(store, token, t) ==
  LET k == FindVerification(store, token)
  IN IF k = 0 THEN [ store |-> store, returned |-> FALSE ]
     ELSE IF store.emailVerifications[k].expiresAt <= t
       THEN [ store |-> store, returned |-> FALSE ]
     ELSE [ store |->
              [ store EXCEPT !.emailVerifications =
                  [ j \in 1..Len(@) |->
                      IF @[j].id = @[k].id THEN [ @[j] EXCEPT !.verified = TRUE ]
                      ELSE @[j] ] ],
            returned |-> TRUE ]

\* verifyEmail(token) at time t: the store it leaves and the value it returns
VerifyEmailResult(store, token, t) ==
  LET k == FindVerification(store, token)
  IN IF k = 0 THEN [ store |-> store, returned |-> FALSE ]
     ELSE IF store.emailVerifications[k].expiresAt < t
       THEN [ store |-> store, returned |-> FALSE ]
     ELSE [ store |->
              [ store EXCEPT !.emailVerifications =
                  [ j \in 1..Len(@) |->
                      IF @[j].id = @[k].id THEN [ @[j] EXCEPT !.verified = TRUE ]
                      ELSE @[j] ] ],
            returned |-> TRUE ]

\* await sendEmailVerification(email)
sendVerification(email, token) ==
  /\ Len(authStore.emailVerifications) < MaxVerifications
  /\ token \in FreshTokens(authStore)
  /\ authStore' = sendEmailVerification(authStore, email, token, now)
  /\ authResult' = Spread(NoAuthResult, [ op |-> "sendEmailVerification",
                                          email |-> email, token |-> token ])
  /\ UNCHANGED << now, tableVars, appVars >>

\* await resendEmailVerification(email)
resendEmailVerification(email, token) ==
  /\ Len(authStore.emailVerifications) < MaxVerifications
  /\ token \in FreshTokens(authStore)
  /\ authStore' = ResendResult(authStore, email, token, now)
  /\ authResult' = Spread(NoAuthResult, [ op |-> "resendEmailVerification",
                                          email |-> email, token |-> token ])
  /\ UNCHANGED << now, tableVars, appVars >>

\* await verifyEmail(token)
verifyEmail(token) ==
  /\ LET result == VerifyEmailResult(authStore, token, now)
     IN /\ authStore' = result.store
        /\ authResult' = Spread(NoAuthResult, [ op |-> "verifyEmail", token |-> token,
                                                returned |-> result.returned ])
  /\ UNCHANGED << now, tableVars, appVars >>

NextVerify ==
  \/ \E email \in VerificationEmails : \E token \in VerificationTokens :
       sendVerification(email, token)
  \/ \E email \in VerificationEmails : \E token \in VerificationTokens :
       resendEmailVerification(email, token)
  \/ \E token \in VerificationTokens : verifyEmail(token)
  \/ tick

SpecVerify == InitAuth /\ [][NextVerify]_vars

\* the verification was invalidated by a later resend for its email: its
\* expiry is no longer 24 hours after its creation
Superseded(v) == v.expiresAt # v.createdAt + VerificationHours * 60 * TicksPerMinute

\* C27: verifyEmail with a token that a later resend for its email has
\* invalidated returns false and leaves the verifications as they are; and a
\* verifyEmail that returns true was called with a token not verified before
C27_ResendInvalidatesEarlierTokens ==
  [][ ( /\ authResult'.op = "verifyEmail"
        /\ (authResult' # authResult \/ authStore' # authStore) )
      => LET issued == { k \in 1..Len(authStore.emailVerifications) :
                           authStore.emailVerifications[k].token = authResult'.token }
         IN /\ (\E k \in issued : Superseded(authStore.emailVerifications[k]))
                 => /\ ~authResult'.returned
                    /\ authStore'.emailVerifications = authStore.emailVerifications
            /\ authResult'.returned
                 => \A k \in issued : ~authStore.emailVerifications[k].verified ]_vars

(***************************************************************************)
(* The app store's notifications.                                          *)
(***************************************************************************)
MaxNotifications == 6

NotificationInputs == { [ id |-> "n6", read |-> FALSE ], [ id |-> "n3", read |-> TRUE ] }

NotificationIdInputs == { "n1", "n3", "n6", "unknown" }

\* App's effect: load the mock notifications if none are loaded
loadNotifications ==
  /\ Len(appStore.notifications) = 0
  /\ appStore' = AddNotifications(appStore, mockNotifications)
  /\ appCall' = [ op |-> "loadNotifications" ]
  /\ UNCHANGED << tableVars, authVars >>

\* addNotification(notification)
addNotification(notification) ==
  /\ Len(appStore.notifications) < MaxNotifications
  /\ appStore' = AddNotificationResult(appStore, notification)
  /\ appCall' = [ op |-> "addNotification", id |-> notification.id ]
  /\ UNCHANGED << tableVars, authVars >>

\* markNotificationAsRead(notificationId)
markNotificationAsRead(notificationId) ==
  /\ appStore' = MarkNotificationAsReadResult(appStore, notificationId)
  /\ appCall' = [ op |-> "markNotificationAsRead", id |-> notificationId ]
  /\ UNCHANGED << tableVars, authVars >>

\* markAllNotificationsAsRead()
markAllNotificationsAsRead ==
  /\ appStore' = MarkAllNotificationsAsReadResult(appStore)
  /\ appCall' = [ op |-> "markAllNotificationsAsRead" ]
  /\ UNCHANGED << tableVars, authVars >>

NextNotifications ==
  \/ loadNotifications
  \/ \E notification \in NotificationInputs : addNotification(notification)
  \/ \E notificationId \in NotificationIdInputs : markNotificationAsRead(notificationId)
  \/ markAllNotificationsAsRead

SpecNotifications == InitAuth /\ [][NextNotifications]_vars

\* C28: unreadCount is the number of notifications whose read flag is false
C28_UnreadCountMatchesUnreadNotifications ==
  appStore.unreadCount =
    Cardinality({ k \in 1..Len(appStore.notifications) : ~appStore.notifications[k].read })

(***************************************************************************)
(* The app store's search.                                                 *)
(***************************************************************************)
SearchCollections == { << >>, << 1, 2, 3, 4, 5, 6 >>, << 6, 3, 1 >> }

\* the partial filters setSearchFilters is called with
SearchFilterInputs ==
  { [ minRating |-> 45 ], [ minRating |-> 0 ],
    [ capabilities |-> << Welding >> ], [ capabilities |-> << >> ],
    [ diversityFlag |-> TRUE ],
    [ minCapacity |-> 50 ],
    [ maxMoq |-> 100, maxLeadTime |-> 21 ], [ maxMoq |-> 100000, maxLeadTime |-> 365 ] }

QueryInputs == { << >>, << "A", "B" >>, << "s", "t" >> }

\* setManufacturers(manufacturers)
setManufacturers(manufacturerIds) ==
  /\ appStore' = SetManufacturersResult(appStore, manufacturerIds)
  /\ appCall' = [ op |-> "setManufacturers" ]
  /\ UNCHANGED << tableVars, authVars >>

\* setSearchFilters(filters)
setSearchFilters(changes) ==
  /\ appStore' = SetSearchFiltersResult(appStore, changes)
  /\ appCall' = [ op |-> "setSearchFilters" ]
  /\ UNCHANGED << tableVars, authVars >>

\* searchManufacturers(query)
searchManufacturers(query) ==
  /\ appStore' = SearchManufacturersResult(appStore, query)
  /\ appCall' = [ op |-> "searchManufacturers", query |-> query ]
  /\ UNCHANGED << tableVars, authVars >>

NextSearch ==
  \/ \E manufacturerIds \in SearchCollections : setManufacturers(manufacturerIds)
  \/ \E changes \in SearchFilterInputs : setSearchFilters(changes)
  \/ \E query \in QueryInputs : searchManufacturers(query)

SpecSearch == InitAuth /\ [][NextSearch]_vars

\* C29: filteredManufacturers holds records of manufacturers, in their order,
\* each satisfying the current searchFilters
C29_FilteredManufacturersSatisfySearchFilters ==
  /\ \A k \in 1..Len(appStore.filteredManufacturers) :
       /\ appStore.filteredManufacturers[k] \in SetOf(appStore.manufacturers)
       /\ KeptBySearch(Catalogue[appStore.filteredManufacturers[k]],
                       appStore.searchFilters, << >>)
  /\ \A i, j \in 1..Len(appStore.filteredManufacturers) :
       i < j => PositionIn(appStore.manufacturers, appStore.filteredManufacturers[i])
                  < PositionIn(appStore.manufacturers, appStore.filteredManufacturers[j])

(***************************************************************************)
(* The app store's shortlist.                                              *)
(***************************************************************************)
NumShortlistIds == 7

ShortlistIds == 1..NumShortlistIds

\* addToShortlist(manufacturer)
addToShortlist(id) ==
  /\ appStore' = AddToShortlistResult(appStore, id)
  /\ appCall' = [ op |-> "addToShortlist", id |-> id ]
  /\ UNCHANGED << tableVars, authVars >>

\* removeFromShortlist(manufacturerId)
removeFromShortlist(manufacturerId) ==
  /\ appStore' = RemoveFromShortlistResult(appStore, manufacturerId)
  /\ appCall' = [ op |-> "removeFromShortlist", id |-> manufacturerId ]
  /\ UNCHANGED << tableVars, authVars >>

\* clearShortlist()
clearShortlist ==
  /\ appStore' = ClearShortlistResult(appStore)
  /\ appCall' = [ op |-> "clearShortlist" ]
  /\ UNCHANGED << tableVars, authVars >>

NextShortlist ==
  \/ \E id \in ShortlistIds : addToShortlist(id)
  \/ \E manufacturerId \in ShortlistIds : removeFromShortlist(manufacturerId)
  \/ clearShortlist

SpecShortlist == InitAuth /\ [][NextShortlist]_vars

\* C30: the shortlist holds at most five manufacturers, no id twice; and an
\* addToShortlist called on a full shortlist, or with an id the shortlist
\* holds, leaves the shortlist as it is
C30_ShortlistBoundedAndDistinct ==
  /\ [] ( /\ Len(appStore.shortlist) <= 5
          /\ \A i, j \in 1..Len(appStore.shortlist) :
               i # j => appStore.shortlist[i] # appStore.shortlist[j] )
  /\ [][ ( /\ appCall'.op = "addToShortlist"
           /\ \/ Len(appStore.shortlist) >= 5
              \/ appCall'.id \in SetOf(appStore.shortlist) )
         => appStore'.shortlist = appStore.shortlist ]_vars

\* addToShortlist was called with a sixth manufacturer on a full shortlist
C30_Witness ==
  /\ appCall.op = "addToShortlist"
  /\ Len(appStore.shortlist) = 5
  /\ appCall.id \notin SetOf(appStore.shortlist)

=============================================================================
